---------------------------- MODULE Spec2Model ----------------------------
(***************************************************************************)
(* Model of the hexrec record library: the Intel HEX, Motorola S-record    *)
(* and MOS Technology record types (src/src/hexrec/formats/*.py) and the   *)
(* block/record bridge of src/src/hexrec/records.py.                       *)
(*                                                                         *)
(* Representation.  Python integers are unbounded, while the addresses of  *)
(* the library range up to 2^32 and beyond.  An address is therefore kept  *)
(* as the pair [hi, lo] standing for hi * 2^16 + lo with 0 <= lo < 2^16,   *)
(* and the address arithmetic of the source is carried out on such pairs.  *)
(* Bytes are integers 0..255; byte strings are sequences of bytes; a text  *)
(* line is a sequence of one-character strings.  An operation that may     *)
(* raise returns [err, val]: err = "" on success and the exception's       *)
(* message otherwise.                                                      *)
(***************************************************************************)
EXTENDS Integers, Sequences, FiniteSets, TLC

VARIABLES
    calls,     \* the calls made so far in the current scenario, in order
    args,      \* the arguments of the call that started the current scenario
    rec,       \* the record object under construction / inspection
    line,      \* the text line produced by marshal()
    parsed,    \* the record returned by parse_record()
    records,   \* the caller-owned list of records
    seqs,      \* the list of data-record sequences handed to merge_records
    lines,     \* the lines of the saved record file
    blocks,    \* the block list returned by records_to_blocks
    err        \* message of the exception raised by the last call, "" if none

vars == <<calls, args, rec, line, parsed, records, seqs, lines, blocks, err>>

-----------------------------------------------------------------------------
(* Python values *)

\* None (records.py: `self.checksum = None`; the MOS tag is always None).
None == -1

\* Ellipsis, the constructor's "compute the checksum now" default.
Ellipsis == -2

Ok(v) == [err |-> "", val |-> v]

Raise(msg) == [err |-> msg, val |-> <<>>]

Min(a, b) == IF a < b THEN a ELSE b

Max(a, b) == IF a > b THEN a ELSE b

\* Python's s[i:j] for 0 <= i, j (indices are clamped to the length).
Slice(s, i, j) ==
    LET lo == Min(i, Len(s))
        hi == Min(j, Len(s))
    IN  IF hi <= lo THEN <<>> ELSE SubSeq(s, lo + 1, hi)

-----------------------------------------------------------------------------
(* Addresses: unbounded Python integers as [hi, lo] pairs *)

Addr(h, l) == [hi |-> h, lo |-> l]

\* The pair of an integer below 2^31.
ToAddr(n) == [hi |-> n \div 65536, lo |-> n % 65536]

\* address + n
AddrAdd(a, n) ==
    LET s == a.lo + n
    IN  [hi |-> a.hi + (s \div 65536), lo |-> s % 65536]

\* a < b
AddrLt(a, b) == a.hi < b.hi \/ (a.hi = b.hi /\ a.lo < b.lo)

\* a <= b
AddrLe(a, b) == a = b \/ AddrLt(a, b)

\* a - b, for addresses less than 2^15 segments apart.
AddrSub(a, b) == (a.hi - b.hi) * 65536 + (a.lo - b.lo)

\* address % n for 0 < n < 2^15
AddrMod(a, n) == (((a.hi % n) * (65536 % n)) + a.lo) % n

\* 0 <= address < (1 << bits), bits = 16 or 32
InRange(a, bits) ==
    /\ a.hi >= 0
    /\ IF bits = 16 THEN a.hi < 1 ELSE a.hi < 65536

\* An end below (1 << bits): the limit itself left out.
InRangeBelow(e, bits) ==
    LET top == IF bits = 16 THEN 1 ELSE IF bits = 24 THEN 256 ELSE 65536
    IN  e.hi >= 0 /\ e.hi < top

\* 0 <= endex <= (1 << bits), bits = 16, 24 or 32
InRangeIncl(e, bits) ==
    LET top == IF bits = 16 THEN 1 ELSE IF bits = 24 THEN 256 ELSE 65536
    IN  /\ e.hi >= 0
        /\ (e.hi < top \/ (e.hi = top /\ e.lo = 0))

\* int(address) of an address below 2^31
AddrInt(a) == a.hi * 65536 + a.lo

-----------------------------------------------------------------------------
(* utils: byte sums and hexadecimal text *)

\* data[i] + ... + data[j], summed by halves
RECURSIVE SumRange(_, _, _)
SumRange(data, i, j) ==
    IF i > j THEN 0
    ELSE IF i = j THEN data[i]
    ELSE LET m == (i + j) \div 2
         IN  SumRange(data, i, m) + SumRange(data, m + 1, j)

sum_bytes(data) == SumRange(data, 1, Len(data))

\* Sum of the bytes struct.pack places for a non-negative integer.
RECURSIVE IntByteSum(_)
IntByteSum(n) == IF n < 256 THEN n ELSE (n % 256) + IntByteSum(n \div 256)

UpperDigits ==
    <<"0", "1", "2", "3", "4", "5", "6", "7",
      "8", "9", "A", "B", "C", "D", "E", "F">>

LowerDigits ==
    <<"0", "1", "2", "3", "4", "5", "6", "7",
      "8", "9", "a", "b", "c", "d", "e", "f">>

\* [0-9A-Fa-f]
IsHexChar(c) == \E i \in 1..16 : c = UpperDigits[i] \/ c = LowerDigits[i]

HexVal(c) == (CHOOSE i \in 1..16 : c = UpperDigits[i] \/ c = LowerDigits[i]) - 1

AllHex(s) == \A i \in 1..Len(s) : IsHexChar(s[i])

\* int(s, 16) for a non-empty run of hex digits
RECURSIVE int16(_)
int16(s) ==
    IF s = <<>> THEN 0
    ELSE int16(SubSeq(s, 1, Len(s) - 1)) * 16 + HexVal(s[Len(s)])

\* int('0' + s, 16) as an address, for at most 8 hex digits
AddrFromHex(s) ==
    LET n == Len(s)
    IN  IF n <= 4 THEN Addr(0, int16(s))
        ELSE Addr(int16(SubSeq(s, 1, n - 4)), int16(SubSeq(s, n - 3, n)))

\* The upper-case hex digits of n >= 0, without padding.
RECURSIVE HexMin(_)
HexMin(n) ==
    IF n < 16 THEN <<UpperDigits[n + 1]>>
    ELSE HexMin(n \div 16) \o <<UpperDigits[(n % 16) + 1]>>

\* f'{n:0wX}' for n >= 0: zero padded to at least w digits
FmtHex(n, w) ==
    LET s == HexMin(n)
    IN  IF Len(s) >= w THEN s ELSE [i \in 1..(w - Len(s)) |-> "0"] \o s

\* f'{address:08X}'
FmtAddr08(a) ==
    IF a.hi = 0 THEN FmtHex(a.lo, 8) ELSE FmtHex(a.hi, 4) \o FmtHex(a.lo, 4)

\* f'{address:04X}'
FmtAddr04(a) ==
    IF a.hi = 0 THEN FmtHex(a.lo, 4) ELSE HexMin(a.hi) \o FmtHex(a.lo, 4)

hexlify(data) ==
    [i \in 1..(2 * Len(data)) |->
        IF i % 2 = 1 THEN UpperDigits[(data[(i + 1) \div 2] \div 16) + 1]
        ELSE UpperDigits[(data[i \div 2] % 16) + 1]]

\* Bytes of an even-length run of hex digits.
unhexlify(s) ==
    [i \in 1..(Len(s) \div 2) |-> HexVal(s[2 * i - 1]) * 16 + HexVal(s[2 * i])]

\* str.strip(): blanks removed at both ends
RECURSIVE strip(_)
strip(s) ==
    IF s = <<>> THEN s
    ELSE IF s[1] \in {" ", "\n"} THEN strip(Tail(s))
    ELSE IF s[Len(s)] \in {" ", "\n"} THEN strip(SubSeq(s, 1, Len(s) - 1))
    ELSE s

\* struct.pack('>H', n) and struct.pack('>L', address)
PackH(n) == <<n \div 256, n % 256>>

PackL(a) == PackH(a.hi) \o PackH(a.lo)

\* struct.unpack('>H', data)[0]
UnpackH(data) == data[1] * 256 + data[2]

-----------------------------------------------------------------------------
(* Record classes and their tags *)

Intel == "intel"

Motorola == "motorola"

Mos == "mos"

RecordTypes == {Intel, Motorola, Mos}

\* intel.Tag
DATA == 0

END_OF_FILE == 1

EXTENDED_SEGMENT_ADDRESS == 2

START_SEGMENT_ADDRESS == 3

EXTENDED_LINEAR_ADDRESS == 4

START_LINEAR_ADDRESS == 5

\* motorola.Tag
HEADER == 0

DATA_16 == 1

DATA_24 == 2

DATA_32 == 3

RESERVED == 4

COUNT_16 == 5

COUNT_24 == 6

START_32 == 7

START_24 == 8

START_16 == 9

\* TAG_TYPE(tag) succeeds: tag is a member of the class's enumeration.
ValidTag(cls, tag) ==
    IF cls = Intel THEN tag \in 0..5
    ELSE IF cls = Motorola THEN tag \in 0..9
    ELSE TRUE

\* motorola.Record.TAG_TO_ADDRESS_LENGTH, None as 0 (`... or 0`)
TAG_TO_ADDRESS_LENGTH == <<2, 2, 3, 4, None, None, None, 4, 3, 2>>

\* motorola.Record.MATCHING_TAG
MATCHING_TAG == <<None, None, None, None, None, None, None, 3, 2, 1>>

\* MATCHING_TAG.index(tag)
MatchingTagIndex(tag) == CHOOSE i \in 0..9 : MATCHING_TAG[i + 1] = tag

NewRecord(cls, address, tag, data, count, checksum) ==
    [cls |-> cls, address |-> address, tag |-> tag, data |-> data,
     count |-> count, checksum |-> checksum]

\* Record.__eq__: address, tag and data are equal
RecordEq(r1, r2) ==
    /\ r1.address = r2.address
    /\ r1.tag = r2.tag
    /\ r1.data = r2.data

\* Tag.is_data / Record.is_data
is_data(r) ==
    IF r.cls = Intel THEN r.tag = DATA
    ELSE IF r.cls = Motorola THEN r.tag \in {DATA_16, DATA_24, DATA_32}
    ELSE r.count > 0

-----------------------------------------------------------------------------
(* count and checksum *)

Intel_compute_count(r) == Len(r.data)

\* A count that leaves out the checksum byte.
Motorola_compute_count_short(r) ==
    LET al == TAG_TO_ADDRESS_LENGTH[r.tag + 1]
        address_length == IF al = None THEN 0 ELSE al
    IN  address_length + Len(r.data)

Motorola_compute_count(r) ==
    LET al == TAG_TO_ADDRESS_LENGTH[r.tag + 1]
        address_length == IF al = None THEN 0 ELSE al
    IN  address_length + Len(r.data) + 1

compute_count(r) ==
    IF r.cls = Motorola THEN Motorola_compute_count(r)
    ELSE IF r.cls = Intel THEN Intel_compute_count(r)
    ELSE Len(r.data)

\* A one's complement in place of the two's complement.
Intel_compute_checksum_ones(r) ==
    LET offset == r.address.lo
        checksum == r.count + sum_bytes(<<offset % 256, offset \div 256>>)
                    + r.tag + sum_bytes(r.data)
    IN  255 - (checksum % 256)

Intel_compute_checksum(r) ==
    LET offset == r.address.lo
        checksum == r.count + sum_bytes(<<offset % 256, offset \div 256>>)
                    + r.tag + sum_bytes(r.data)
    IN  (256 - (checksum % 256)) % 256

\* struct.pack('BL', count, address) raises outside the fields' ranges.
Motorola_can_pack(r) == r.count \in 0..255 /\ r.address.hi >= 0

\* What compute_checksum() gives when struct.pack raises struct.error.
StructError == -3

Motorola_compute_checksum(r) ==
    LET checksum == r.count + IntByteSum(r.address.hi)
                    + IntByteSum(r.address.lo) + sum_bytes(r.data)
    IN  IF Motorola_can_pack(r) THEN 255 - (checksum % 256) ELSE StructError

Mos_compute_checksum(r) ==
    IF r.count # 0
    THEN (r.count + r.address.hi + (r.address.lo % 256)
          + sum_bytes(r.data)) % 65536
    ELSE AddrInt(r.address)

compute_checksum(r) ==
    IF r.cls = Intel THEN Intel_compute_checksum(r)
    ELSE IF r.cls = Motorola THEN Motorola_compute_checksum(r)
    ELSE Mos_compute_checksum(r)

\* Record._get_checksum
get_checksum(r) ==
    IF r.checksum = None THEN compute_checksum(r) ELSE r.checksum

-----------------------------------------------------------------------------
(* check(): the message of the ValueError raised, "" when the record passes *)

Record_check(r) ==
    IF ~ (0 <= r.address.hi) THEN "address overflow"
    ELSE IF ~ (0 <= r.tag /\ r.tag <= 255) THEN "tag overflow"
    ELSE IF ~ (0 <= r.count /\ r.count <= 255) THEN "count overflow"
    ELSE IF r.checksum # None /\ ~ (0 <= r.checksum /\ r.checksum <= 255)
    THEN "checksum overflow"
    ELSE IF r.checksum # None /\ r.checksum # compute_checksum(r)
    THEN "checksum error"
    ELSE ""

Intel_check(r) ==
    IF Record_check(r) # "" THEN Record_check(r)
    ELSE IF r.count # Intel_compute_count(r) THEN "count error"
    ELSE IF ~ ValidTag(Intel, r.tag) THEN "not a valid Tag"
    ELSE ""

Motorola_check(r) ==
    IF Record_check(r) # "" THEN Record_check(r)
    ELSE IF ~ ValidTag(Motorola, r.tag) THEN "not a valid Tag"
    ELSE IF r.tag \in {0, 4, 5, 6} /\ r.address # ToAddr(0)
    THEN "address error"
    ELSE IF r.count # Motorola_compute_count(r) THEN "count error"
    ELSE ""

Mos_check(r) ==
    IF ~ InRange(r.address, 16) THEN "address overflow"
    ELSE IF r.tag # None THEN "wrong tag"
    ELSE IF ~ (0 <= r.count /\ r.count < 256) THEN "count overflow"
    ELSE IF r.count # Len(r.data) THEN "count error"
    ELSE IF r.checksum # None /\ ~ (0 <= r.checksum /\ r.checksum < 65536)
    THEN "checksum overflow"
    ELSE IF r.checksum # None /\ r.checksum # Mos_compute_checksum(r)
    THEN "checksum error"
    ELSE ""

check(r) ==
    IF r.cls = Intel THEN Intel_check(r)
    ELSE IF r.cls = Motorola THEN Motorola_check(r)
    ELSE Mos_check(r)

-----------------------------------------------------------------------------
(* Constructors: Record.__init__ and the overriding __init__ of each class *)

Record_init(cls, address, tag, data, checksum) ==
    LET r0 == NewRecord(cls, address, tag, data, 0, None)
        r1 == [r0 EXCEPT !.count = compute_count(r0)]
    IN  IF checksum = Ellipsis
        THEN IF compute_checksum(r1) = StructError
             THEN Raise("struct.error")
             ELSE Ok([r1 EXCEPT !.checksum = compute_checksum(r1)])
        ELSE Ok([r1 EXCEPT !.checksum = checksum])

Intel_init(address, tag, data, checksum) ==
    IF ~ InRange(address, 32) THEN Raise("address overflow")
    ELSE IF ~ InRangeIncl(AddrAdd(address, Len(data)), 32)
    THEN Raise("size overflow")
    ELSE IF ~ ValidTag(Intel, tag) THEN Raise("not a valid Tag")
    ELSE Record_init(Intel, address, tag, data, checksum)

Motorola_init(address, tag, data, checksum) ==
    IF ~ ValidTag(Motorola, tag) THEN Raise("not a valid Tag")
    ELSE Record_init(Motorola, address, tag, data, checksum)

Mos_init(address, tag, data, checksum) ==
    Record_init(Mos, address, tag, data, checksum)

\* cls(address, tag, data, checksum)
Construct(cls, address, tag, data, checksum) ==
    IF cls = Intel THEN Intel_init(address, tag, data, checksum)
    ELSE IF cls = Motorola THEN Motorola_init(address, tag, data, checksum)
    ELSE Mos_init(address, tag, data, checksum)

-----------------------------------------------------------------------------
(* Builders *)

Intel_build_data(address, data) == Intel_init(address, DATA, data, Ellipsis)

Intel_build_extended_linear_address(address) ==
    IF ~ InRange(address, 32) THEN Raise("address overflow")
    ELSE Intel_init(ToAddr(0), EXTENDED_LINEAR_ADDRESS, PackH(address.hi),
                    Ellipsis)

Intel_build_extended_segment_address(address) ==
    IF ~ InRange(address, 32) THEN Raise("address overflow")
    ELSE Intel_init(ToAddr(0), EXTENDED_SEGMENT_ADDRESS,
                    PackH(address.hi \div 16), Ellipsis)

Intel_build_start_linear_address(address) ==
    IF ~ InRange(address, 32) THEN Raise("address overflow")
    ELSE Intel_init(ToAddr(0), START_LINEAR_ADDRESS, PackL(address), Ellipsis)

Intel_build_end_of_file == Intel_init(ToAddr(0), END_OF_FILE, <<>>, Ellipsis)

Motorola_fit_data_tag(endex) ==
    IF ~ InRangeIncl(endex, 32) THEN Raise("address overflow")
    ELSE IF InRangeIncl(endex, 16) THEN Ok(DATA_16)
    ELSE IF InRangeIncl(endex, 24) THEN Ok(DATA_24)
    ELSE Ok(DATA_32)

Motorola_fit_count_tag(record_count) ==
    IF ~ (0 <= record_count /\ record_count < 16777216)
    THEN Raise("count overflow")
    ELSE IF record_count < 65536 THEN Ok(COUNT_16)
    ELSE Ok(COUNT_24)

Motorola_build_header(data) == Motorola_init(ToAddr(0), HEADER, data, Ellipsis)

\* build_data(address, data, tag); tag = None selects the fitting tag
Motorola_build_data(address, data, tag) ==
    LET fit == IF tag = None
               THEN Motorola_fit_data_tag(AddrAdd(address, Len(data)))
               ELSE Ok(tag)
    IN  IF fit.err # "" THEN fit
        ELSE IF fit.val \notin {1, 2, 3} THEN Raise("tag error")
        ELSE Motorola_init(address, fit.val, data, Ellipsis)

Motorola_build_terminator(start, last_data_tag) ==
    IF last_data_tag \notin {1, 2, 3} THEN Raise("is not in list")
    ELSE Motorola_init(start, MatchingTagIndex(last_data_tag), <<>>, Ellipsis)

Motorola_build_count(record_count) ==
    LET fit == Motorola_fit_count_tag(record_count)
        count_data == PackL(ToAddr(record_count))
    IN  IF fit.err # "" THEN fit
        ELSE Motorola_init(ToAddr(0), fit.val,
                           Slice(count_data, 7 - fit.val, 4), Ellipsis)

Mos_build_data(address, data) == Mos_init(address, None, data, Ellipsis)

Mos_build_terminator(record_count) ==
    Mos_init(ToAddr(record_count), None, <<>>, record_count)

\* cls.build_data(address, data)
build_data(cls, address, data) ==
    IF cls = Intel THEN Intel_build_data(address, data)
    ELSE IF cls = Motorola THEN Motorola_build_data(address, data, None)
    ELSE Mos_build_data(address, data)

-----------------------------------------------------------------------------
(* marshal(): Record.__str__ of each class *)

Intel_str(r) ==
    IF Intel_check(r) # "" THEN Raise(Intel_check(r))
    ELSE Ok(<<":">> \o FmtHex(Len(r.data), 2) \o FmtHex(r.address.lo, 4)
            \o FmtHex(r.tag, 2) \o hexlify(r.data)
            \o FmtHex(get_checksum(r), 2))

Motorola_str(r) ==
    IF Motorola_check(r) # "" THEN Raise(Motorola_check(r))
    ELSE
        LET tag_text == <<"S">> \o HexMin(r.tag)
            address_length == TAG_TO_ADDRESS_LENGTH[r.tag + 1]
            count_text ==
                IF address_length = None THEN FmtHex(Len(r.data) + 1, 2)
                ELSE FmtHex(address_length + Len(r.data) + 1, 2)
            address_text ==
                IF address_length = None THEN <<>>
                ELSE LET full == FmtAddr08(r.address)
                     IN  Slice(full, 2 * (4 - address_length), Len(full))
        IN  Ok(tag_text \o count_text \o address_text \o hexlify(r.data)
               \o FmtHex(get_checksum(r), 2))

Mos_str(r) ==
    Ok(<<";">> \o FmtHex(r.count, 2) \o FmtAddr04(r.address)
       \o hexlify(r.data) \o FmtHex(get_checksum(r), 4))

marshal(r) ==
    IF r.cls = Intel THEN Intel_str(r)
    ELSE IF r.cls = Motorola THEN Motorola_str(r)
    ELSE Mos_str(r)

-----------------------------------------------------------------------------
(* parse_record() of each class *)

\* REGEX of intel.Record: ':' count{2} offset{4} tag{2} data{,255} checksum{2}
Intel_REGEX(l) ==
    /\ Len(l) >= 11
    /\ l[1] = ":"
    /\ AllHex(Tail(l))
    /\ (Len(l) - 11) % 2 = 0
    /\ (Len(l) - 11) \div 2 <= 255

Intel_parse_record(text) ==
    LET l == strip(text)
    IN  IF ~ Intel_REGEX(l) THEN Raise("regex error")
        ELSE
            LET offset == int16(SubSeq(l, 4, 7))
                tag == int16(SubSeq(l, 8, 9))
                count == int16(SubSeq(l, 2, 3))
                data == unhexlify(SubSeq(l, 10, Len(l) - 2))
                checksum == int16(SubSeq(l, Len(l) - 1, Len(l)))
            IN  IF ~ ValidTag(Intel, tag) THEN Raise("not a valid Tag")
                ELSE IF count # Len(data) THEN Raise("count error")
                ELSE Intel_init(Addr(0, offset), tag, data, checksum)

\* REGEX of motorola.Record: 'S' [0-9] followed by 4 to 140 hex pairs
Motorola_REGEX(l) ==
    /\ Len(l) >= 2
    /\ l[1] = "S"
    /\ \E i \in 1..10 : l[2] = UpperDigits[i]
    /\ AllHex(Tail(Tail(l)))
    /\ (Len(l) - 2) % 2 = 0
    /\ (Len(l) - 2) \div 2 >= 4
    /\ (Len(l) - 2) \div 2 <= 140

Motorola_parse_record(text) ==
    LET l == strip(text)
    IN  IF ~ Motorola_REGEX(l) THEN Raise("regex error")
        ELSE
            LET tag == int16(<<l[2]>>)
                count == int16(SubSeq(l, 3, 4))
                al == TAG_TO_ADDRESS_LENGTH[tag + 1]
                address_length == IF al = None THEN 0 ELSE al
                address == AddrFromHex(Slice(l, 4, 4 + 2 * address_length))
                data == unhexlify(Slice(l, 4 + 2 * address_length, Len(l) - 2))
                checksum == int16(SubSeq(l, Len(l) - 1, Len(l)))
            IN  IF 2 * count # Len(l) - 4 THEN Raise("AssertionError")
                ELSE Motorola_init(address, tag, data, checksum)

\* REGEX of mos.Record: ';' count{2} address{4} data{,255} checksum{4}
Mos_REGEX(l) ==
    /\ Len(l) >= 11
    /\ l[1] = ";"
    /\ AllHex(Tail(l))
    /\ (Len(l) - 11) % 2 = 0
    /\ (Len(l) - 11) \div 2 <= 255

Mos_parse_record(text) ==
    LET l == strip(text)
    IN  IF ~ Mos_REGEX(l) THEN Raise("regex error")
        ELSE
            LET address == int16(SubSeq(l, 4, 7))
                count == int16(SubSeq(l, 2, 3))
                data == unhexlify(SubSeq(l, 8, Len(l) - 4))
                checksum == int16(SubSeq(l, Len(l) - 3, Len(l)))
            IN  IF count # Len(data) THEN Raise("count error")
                ELSE Mos_init(Addr(0, address), None, data, checksum)

parse_record(cls, text) ==
    IF cls = Intel THEN Intel_parse_record(text)
    ELSE IF cls = Motorola THEN Motorola_parse_record(text)
    ELSE Mos_parse_record(text)

-----------------------------------------------------------------------------
(* The caller's workspace: initial state and input domains *)

\* The latest call of the scenario was `name`.
Last(name) == calls # <<>> /\ calls[Len(calls)] = name

NoRecord == NewRecord("none", ToAddr(0), None, <<>>, 0, None)

NoArgs ==
    [call |-> "none", cls |-> "none", address |-> ToAddr(0), data |-> <<>>,
     tag |-> None, checksum |-> None, columns |-> 0, align |-> FALSE,
     standalone |-> FALSE, output_type |-> "none"]

\* Each scenario starts from a fresh workspace (no call made yet).
Init ==
    /\ calls = <<>>
    /\ args = NoArgs
    /\ rec = NoRecord
    /\ line = <<>>
    /\ parsed = NoRecord
    /\ records = <<>>
    /\ seqs = <<>>
    /\ lines = <<>>
    /\ blocks = <<>>
    /\ err = ""

\* b'Hello, World!'
Hello == <<72, 101, 108, 108, 111, 44, 32, 87, 111, 114, 108, 100, 33>>

Fill(n, b) == [i \in 1..n |-> b]

\* Payloads handed to the constructors: empty, short, the documented
\* example, one longer than a Motorola line may hold, one longer than the
\* count field may hold.
RecordData == {<<>>, <<65>>, <<1, 255>>, Hello, Fill(137, 3), Fill(256, 1)}

\* 0, 0x1234, 0xFFFF, 0x10000, 0x12345, 0x1000000, 0xFFFFFFFF, 0x100000000.
\* The checksum of an empty MOS record is its address as an integer, so the
\* MOS records stay below 2^31.
RecordAddresses(cls) ==
    {Addr(0, 0), Addr(0, 4660), Addr(0, 65535), Addr(1, 0), Addr(1, 9029),
     Addr(256, 0)}
    \cup (IF cls = Mos THEN {} ELSE {Addr(65535, 65535), Addr(65536, 0)})

\* Tags handed to the constructors, one past the enumeration included.
RecordTags(cls) ==
    IF cls = Intel THEN {0, 1, 4, 5, 6}
    ELSE IF cls = Motorola THEN {0, 1, 2, 3, 4, 5, 7, 9, 10}
    ELSE {None}

RecordChecksums == {Ellipsis, None, 0, 68}

-----------------------------------------------------------------------------
(* Operations on one record *)

\* record = cls(address, tag, data, checksum)
CallConstructor(cls, address, tag, data, checksum) ==
    LET res == Construct(cls, address, tag, data, checksum)
    IN  /\ calls = <<>>
        /\ calls' = <<"construct">>
        /\ args' = [NoArgs EXCEPT !.call = "construct", !.cls = cls,
                                  !.address = address, !.tag = tag,
                                  !.data = data, !.checksum = checksum]
        /\ rec' = IF res.err = "" THEN res.val ELSE NoRecord
        /\ err' = res.err
        /\ line' = <<>>
        /\ parsed' = NoRecord
        /\ UNCHANGED <<records, seqs, lines, blocks>>

\* record = cls.build_data(address, data)
CallBuildData(cls, address, data) ==
    LET res == build_data(cls, address, data)
    IN  /\ calls = <<>>
        /\ calls' = <<"build_data">>
        /\ args' = [NoArgs EXCEPT !.call = "build_data", !.cls = cls,
                                  !.address = address, !.data = data]
        /\ rec' = IF res.err = "" THEN res.val ELSE NoRecord
        /\ err' = res.err
        /\ line' = <<>>
        /\ parsed' = NoRecord
        /\ UNCHANGED <<records, seqs, lines, blocks>>

\* line = record.marshal()
CallMarshal ==
    /\ calls \in {<<"construct">>, <<"build_data">>}
    /\ err = ""
    /\ LET res == marshal(rec)
       IN  /\ line' = IF res.err = "" THEN res.val ELSE <<>>
           /\ err' = res.err
    /\ calls' = Append(calls, "marshal")
    /\ UNCHANGED <<args, rec, parsed, records, seqs, lines, blocks>>

\* parsed = cls.parse_record(line)
CallParseRecord ==
    /\ Last("marshal")
    /\ err = ""
    /\ LET res == parse_record(rec.cls, line)
       IN  /\ parsed' = IF res.err = "" THEN res.val ELSE NoRecord
           /\ err' = res.err
    /\ calls' = Append(calls, "parse_record")
    /\ UNCHANGED <<args, rec, line, records, seqs, lines, blocks>>

RecordNext ==
    \/ \E cls \in RecordTypes, data \in RecordData,
          checksum \in RecordChecksums :
          \E tag \in RecordTags(cls), address \in RecordAddresses(cls) :
              CallConstructor(cls, address, tag, data, checksum)
    \/ \E cls \in RecordTypes, data \in RecordData :
          \E address \in RecordAddresses(cls) :
              CallBuildData(cls, address, data)
    \/ CallMarshal
    \/ CallParseRecord

\* Single records: construct or build, marshal, parse back.
SpecRecord == Init /\ [][RecordNext]_vars

-----------------------------------------------------------------------------
(* Properties of single records *)

\* The call that started the scenario was cls.build_data(0x1234, b'Hello, World!')
BuiltHello(cls) ==
    /\ args.call = "build_data"
    /\ args.cls = cls
    /\ args.address = ToAddr(4660)
    /\ args.data = Hello

\* The address of r fits the address field of its marshalled line, and the
\* line has a length the class's parser accepts.
FitsLine(r) ==
    IF r.cls = Intel THEN r.address.hi = 0
    ELSE IF r.cls = Motorola
    THEN /\ r.count >= 3
         /\ r.count <= 139
         /\ IF r.tag \in {DATA_16, START_16} THEN InRange(r.address, 16)
            ELSE IF r.tag \in {DATA_24, START_24} THEN r.address.hi \in 0..255
            ELSE InRange(r.address, 32)
    ELSE TRUE

\* C2, as stated: every record that was constructed without error and
\* passes check() marshals to a line that parse_record accepts and turns
\* back into a record with the same address, tag and data.
C2_RoundTripAnyRecord ==
    /\ (Last("marshal") /\ check(rec) = "") => err = ""
    /\ (Last("parse_record") /\ check(rec) = "")
          => (err = "" /\ RecordEq(parsed, rec))

\* What does hold of C2: the round trip parse_record(marshal(r)) returns a record
\* with the same address, tag and data for every record r that passes
\* check() and whose address fits the address field of its line (16 bits
\* for Intel, the tag's address length for Motorola) and, for Motorola,
\* whose count lies in 3..139, the line lengths the parser accepts.
C2_RoundTripFittingRecord ==
    /\ (Last("marshal") /\ check(rec) = "") => err = ""
    /\ (Last("parse_record") /\ check(rec) = "" /\ FitsLine(rec))
          => (err = "" /\ RecordEq(parsed, rec))

\* A Motorola record of 137 data bytes passed check() and was marshalled,
\* and parse_record rejected its line.
C2_Witness ==
    /\ Last("parse_record")
    /\ rec.cls = Motorola
    /\ rec.tag = DATA_16
    /\ Len(rec.data) = 137
    /\ check(rec) = ""
    /\ err = "regex error"

\* C7, as stated: every record build_data returns without raising passes
\* check().
C7_BuildDataPassesCheck ==
    (Last("build_data") /\ err = "") => check(rec) = ""

\* MOS build_data(0x10000, b'A') returned a record that check() rejects.
C7_Witness ==
    /\ Last("build_data")
    /\ args.cls = Mos
    /\ args.address = Addr(1, 0)
    /\ args.data = <<65>>
    /\ err = ""
    /\ check(rec) = "address overflow"

Line_IntelHello ==
    <<":", "0", "D", "1", "2", "3", "4", "0", "0", "4", "8", "6",
      "5", "6", "C", "6", "C", "6", "F", "2", "C", "2", "0", "5",
      "7", "6", "F", "7", "2", "6", "C", "6", "4", "2", "1", "4",
      "4">>

\* C8: an Intel record has count = len(data) and its checksum is the two's
\* complement, modulo 256, of count + the two bytes of (address mod 2^16)
\* + tag + the data bytes; build_data(0x1234, b'Hello, World!') marshals to
\* ':0D12340048656C6C6F2C20576F726C642144'.
C8_IntelCountChecksum ==
    /\ \A r \in {rec, parsed} :
          r.cls = Intel =>
              /\ r.count = Len(r.data)
              /\ compute_checksum(r) =
                    (-(r.count + (r.address.lo \div 256) + (r.address.lo % 256)
                       + r.tag + sum_bytes(r.data))) % 256
    /\ (Last("marshal") /\ BuiltHello(Intel))
          => (err = "" /\ line = Line_IntelHello)

C8_Witness ==
    /\ Last("marshal")
    /\ BuiltHello(Intel)
    /\ rec.count = 13
    /\ rec.checksum = 68

Line_MotorolaHello ==
    <<"S", "1", "1", "0", "1", "2", "3", "4", "4", "8", "6", "5",
      "6", "C", "6", "C", "6", "F", "2", "C", "2", "0", "5", "7",
      "6", "F", "7", "2", "6", "C", "6", "4", "2", "1", "4", "0">>

\* The address byte length the Motorola tags stand for, 0 for the tags
\* without an address field.
AddressBytesOfTag(tag) ==
    IF tag \in {HEADER, DATA_16, START_16} THEN 2
    ELSE IF tag \in {DATA_24, START_24} THEN 3
    ELSE IF tag \in {DATA_32, START_32} THEN 4
    ELSE 0

\* Sum of the bytes of an address below 2^40.
AddressByteSum(a) ==
    (a.hi \div 65536) + ((a.hi \div 256) % 256) + (a.hi % 256)
    + (a.lo \div 256) + (a.lo % 256)

\* The checksum the Motorola format defines for the fields of r.
MotorolaChecksumOf(r) ==
    255 - ((r.count + AddressByteSum(r.address) + sum_bytes(r.data)) % 256)

C10_MosChecksum ==
    \A r \in {rec, parsed} :
        r.cls = Mos =>
            /\ (r.count > 0 /\ InRange(r.address, 16)) =>
                  compute_checksum(r) =
                      (r.count + (r.address.lo \div 256) + (r.address.lo % 256)
                       + sum_bytes(r.data)) % 65536
            /\ r.count = 0 => compute_checksum(r) = AddrInt(r.address)

\* MOS build_data(0x1234, b'Hello, World!') has the checksum 0x04AA, where
\* the sum with the high byte of the address is 0x04BC.
C10_Witness ==
    /\ Last("build_data")
    /\ BuiltHello(Mos)
    /\ rec.checksum = 1194
    /\ (rec.count + (rec.address.lo \div 256) + (rec.address.lo % 256)
        + sum_bytes(rec.data)) % 65536 = 1212

-----------------------------------------------------------------------------
(* split(): a byte string chopped into the records of one class *)

\* The list made from a generator's results: the values when every one was
\* built, the first exception otherwise.
Collect(results) ==
    IF \E i \in 1..Len(results) : results[i].err # ""
    THEN Raise(results[CHOOSE i \in 1..Len(results) :
                           /\ results[i].err # ""
                           /\ \A j \in 1..(i - 1) : results[j].err = ""].err)
    ELSE Ok([i \in 1..Len(results) |-> results[i].val])

\* utils.chop(vector, window, align_base): slices of up to `window` items,
\* the first one cut short so that the following ones start on multiples of
\* `window` counted from align_base.
chop(vector, window, align_base) ==
    LET offset == IF align_base # 0
                  THEN (window - (align_base % window)) % window
                  ELSE 0
        first == IF align_base # 0 THEN <<Slice(vector, 0, offset)>> ELSE <<>>
        n == IF Len(vector) > offset
             THEN (Len(vector) - offset + window - 1) \div window
             ELSE 0
    IN  first \o [k \in 1..n |->
                     Slice(vector, offset + (k - 1) * window,
                           offset + k * window)]

\* (a ^ b) & 0xFF000000 is non-zero: a mask that is too narrow.
HighBytesDiffer(a, b) == ((a.hi % 65536) \div 256) # ((b.hi % 65536) \div 256)

\* (a ^ b) & 0xFFFF0000 is non-zero
HighWordsDiffer(a, b) == (a.hi % 65536) # (b.hi % 65536)

\* A termination sequence with the start record ahead of the address record.
Intel_terminate_start_first(start) ==
    <<Intel_build_start_linear_address(start),
      Intel_build_extended_linear_address(ToAddr(0)),
      Intel_build_end_of_file>>

Intel_terminate(start) ==
    <<Intel_build_extended_linear_address(ToAddr(0)),
      Intel_build_start_linear_address(start),
      Intel_build_end_of_file>>

\* The loop of intel.Record.split over the chunks still to emit.
RECURSIVE Intel_split_loop(_, _, _)
Intel_split_loop(chunks, address, address_old) ==
    IF chunks = <<>> THEN <<>>
    ELSE
        LET chunk == Head(chunks)
            length == Len(chunk)
            endex == AddrAdd(address, length)
            overflow == endex.lo
        IN  IF overflow # 0 /\ HighWordsDiffer(address, endex)
            THEN LET pivot == length - overflow
                     middle == AddrAdd(address, pivot)
                 IN  <<Intel_build_data(address, Slice(chunk, 0, pivot)),
                       Intel_build_extended_linear_address(middle),
                       Intel_build_data(middle, Slice(chunk, pivot, length))>>
                     \o Intel_split_loop(Tail(chunks),
                                         AddrAdd(middle, overflow), middle)
            ELSE (IF HighWordsDiffer(address, address_old)
                  THEN <<Intel_build_extended_linear_address(address)>>
                  ELSE <<>>)
                 \o <<Intel_build_data(address, chunk)>>
                 \o Intel_split_loop(Tail(chunks), endex, address)

\* intel.Record.split(data, address, columns, align, standalone), start=None
Intel_split(data, address, columns, align, standalone) ==
    IF ~ InRange(address, 32) THEN Raise("address overflow")
    ELSE IF ~ InRangeIncl(AddrAdd(address, Len(data)), 32)
    THEN Raise("size overflow")
    ELSE IF ~ (0 < columns /\ columns < 255) THEN Raise("column overflow")
    ELSE
        LET start == address
            align_base == IF align THEN AddrMod(address, columns) ELSE 0
        IN  Collect(Intel_split_loop(chop(data, columns, align_base),
                                     address, ToAddr(0))
                    \o (IF standalone THEN Intel_terminate(start) ELSE <<>>))

\* The data records of motorola.Record.split, one per chunk.
RECURSIVE Motorola_split_loop(_, _, _)
Motorola_split_loop(chunks, address, tag) ==
    IF chunks = <<>> THEN <<>>
    ELSE <<Motorola_build_data(address, Head(chunks), tag)>>
         \o Motorola_split_loop(Tail(chunks),
                                AddrAdd(address, Len(Head(chunks))), tag)

\* motorola.Record.split(data, address, columns, align, standalone),
\* start=None, tag=None, header=b''
Motorola_split(data, address, columns, align, standalone) ==
    IF ~ InRange(address, 32) THEN Raise("address overflow")
    ELSE IF ~ InRangeIncl(AddrAdd(address, Len(data)), 32)
    THEN Raise("size overflow")
    ELSE IF ~ (0 < columns /\ columns < 128) THEN Raise("column overflow")
    ELSE
        LET start == address
            tag == Motorola_fit_data_tag(AddrAdd(address, Len(data))).val
            skip == IF align THEN AddrMod(address, columns) ELSE 0
            body == Motorola_split_loop(chop(data, columns, skip), address, tag)
        IN  Collect((IF standalone THEN <<Motorola_build_header(<<>>)>>
                     ELSE <<>>)
                    \o body
                    \o (IF standalone
                        THEN <<Motorola_build_count(Len(body)),
                               Motorola_build_terminator(start, tag)>>
                        ELSE <<>>))

\* The data records of mos.Record.split, one per chunk.
RECURSIVE Mos_split_loop(_, _)
Mos_split_loop(chunks, offset) ==
    IF chunks = <<>> THEN <<>>
    ELSE <<Mos_build_data(offset, Head(chunks))>>
         \o Mos_split_loop(Tail(chunks), AddrAdd(offset, Len(Head(chunks))))

\* mos.Record.split(data, address, columns, align, standalone)
Mos_split(data, address, columns, align, standalone) ==
    IF ~ InRange(address, 16) THEN Raise("address overflow")
    ELSE IF ~ InRangeIncl(AddrAdd(address, Len(data)), 16)
    THEN Raise("size overflow")
    ELSE IF ~ (0 < columns /\ columns < 256) THEN Raise("column overflow")
    ELSE
        LET align_base == IF align THEN AddrMod(address, columns) ELSE 0
            body == Mos_split_loop(chop(data, columns, align_base), address)
        IN  Collect(body
                    \o (IF standalone THEN <<Mos_build_terminator(Len(body))>>
                        ELSE <<>>))

\* list(cls.split(data, address, columns, align, standalone))
split(cls, data, address, columns, align, standalone) ==
    IF cls = Intel THEN Intel_split(data, address, columns, align, standalone)
    ELSE IF cls = Motorola
    THEN Motorola_split(data, address, columns, align, standalone)
    ELSE Mos_split(data, address, columns, align, standalone)

-----------------------------------------------------------------------------
(* build_standalone(): framing records around a list of data records *)

\* min(record.address for record in records), records not empty
RECURSIVE MinAddress(_)
MinAddress(rs) ==
    IF Len(rs) = 1 THEN rs[1].address
    ELSE LET m == MinAddress(Tail(rs))
         IN  IF AddrLt(m, rs[1].address) THEN m ELSE rs[1].address

\* max(record.tag for record in records), records not empty
RECURSIVE MaxTag(_)
MaxTag(rs) ==
    IF Len(rs) = 1 THEN rs[1].tag ELSE Max(rs[1].tag, MaxTag(Tail(rs)))

Oks(rs) == [i \in 1..Len(rs) |-> Ok(rs[i])]

\* intel.Record.build_standalone(data_records), start=None
Intel_build_standalone(data_records) ==
    LET some == IF data_records = <<>>
                THEN <<Intel_build_data(ToAddr(0), <<>>).val>>
                ELSE data_records
        start == MinAddress(some)
    IN  Collect(Oks(data_records) \o Intel_terminate(start))

\* motorola.Record.build_standalone(data_records), start=None, tag=None,
\* header=b''
\* A standalone sequence whose count record counts the header as well.
Motorola_build_standalone_counting_header(data_records) ==
    LET some == IF data_records = <<>>
                THEN <<Motorola_build_data(ToAddr(0), <<>>, None).val>>
                ELSE data_records
    IN  Collect(<<Motorola_build_header(<<>>)>>
                \o Oks(some)
                \o <<Motorola_build_count(Len(some) + 1),
                     Motorola_build_terminator(MinAddress(some),
                                               MaxTag(some))>>)

Motorola_build_standalone(data_records) ==
    LET some == IF data_records = <<>>
                THEN <<Motorola_build_data(ToAddr(0), <<>>, None).val>>
                ELSE data_records
        tag == MaxTag(some)
        start == MinAddress(some)
    IN  Collect(<<Motorola_build_header(<<>>)>>
                \o Oks(some)
                \o <<Motorola_build_count(Len(some)),
                     Motorola_build_terminator(start, tag)>>)

\* mos.Record.build_standalone(data_records)
Mos_build_standalone(data_records) ==
    Collect(Oks(data_records) \o <<Mos_build_terminator(Len(data_records))>>)

\* list(cls.build_standalone(data_records))
build_standalone(cls, data_records) ==
    IF cls = Intel THEN Intel_build_standalone(data_records)
    ELSE IF cls = Motorola THEN Motorola_build_standalone(data_records)
    ELSE Mos_build_standalone(data_records)

-----------------------------------------------------------------------------
(* readdress(): flat addresses, in place *)

\* A readdressing that shifts segment values by 16 bits as well.
RECURSIVE Intel_readdress_loop_linear_only(_, _)
Intel_readdress_loop_linear_only(rs, base) ==
    IF rs = <<>> THEN Ok(<<>>)
    ELSE
        LET record == Head(rs)
        IN  IF record.tag \in {EXTENDED_SEGMENT_ADDRESS, EXTENDED_LINEAR_ADDRESS}
            THEN LET newbase == Addr(UnpackH(record.data), 0)
                     rest == Intel_readdress_loop_linear_only(Tail(rs), newbase)
                 IN  [err |-> rest.err,
                      val |-> <<[record EXCEPT !.address = newbase]>>
                              \o rest.val]
            ELSE LET address == AddrAdd(Addr(base.hi + record.address.hi, base.lo),
                                        record.address.lo)
                     rest == Intel_readdress_loop_linear_only(Tail(rs), base)
                 IN  [err |-> rest.err,
                      val |-> <<[record EXCEPT !.address = address]>>
                              \o rest.val]

\* The loop of intel.Record.readdress: the list after the call, and the
\* exception that stopped it, if any.
RECURSIVE Intel_readdress_loop(_, _)
Intel_readdress_loop(rs, base) ==
    IF rs = <<>> THEN Ok(<<>>)
    ELSE
        LET record == Head(rs)
        IN  IF record.tag \in {EXTENDED_SEGMENT_ADDRESS, EXTENDED_LINEAR_ADDRESS}
            THEN IF Len(record.data) # 2
                 THEN [err |-> "struct.error", val |-> rs]
                 ELSE LET value == UnpackH(record.data)
                          newbase == IF record.tag = EXTENDED_SEGMENT_ADDRESS
                                     THEN ToAddr(value * 16)
                                     ELSE Addr(value, 0)
                          rest == Intel_readdress_loop(Tail(rs), newbase)
                      IN  [err |-> rest.err,
                           val |-> <<[record EXCEPT !.address = newbase]>>
                                   \o rest.val]
            ELSE LET address == AddrAdd(Addr(base.hi + record.address.hi, base.lo),
                                        record.address.lo)
                     rest == Intel_readdress_loop(Tail(rs), base)
                 IN  [err |-> rest.err,
                      val |-> <<[record EXCEPT !.address = address]>>
                              \o rest.val]

\* cls.readdress(records): a no-op except for Intel
readdress(cls, rs) ==
    IF cls = Intel THEN Intel_readdress_loop(rs, ToAddr(0)) ELSE Ok(rs)

-----------------------------------------------------------------------------
(* check_sequence(): the message of the exception raised, "" when the
   sequence passes *)

\* The bytes of a count record read as a big-endian number.
RECURSIVE BigEndian(_)
BigEndian(data) ==
    IF data = <<>> THEN 0
    ELSE 256 * BigEndian(SubSeq(data, 1, Len(data) - 1)) + data[Len(data)]

\* utils.do_overlap for two ranges given as start and end-exclusive
do_overlap(start1, endex1, start2, endex2) ==
    AddrLt(start2, endex1) /\ AddrLt(start1, endex2)

\* Record.overlaps
overlaps(r, other) ==
    do_overlap(r.address, AddrAdd(r.address, Len(r.data)),
               other.address, AddrAdd(other.address, Len(other.data)))

\* The loop of Record.check_sequence; `last` is <<>> for None.
RECURSIVE Record_check_sequence_loop(_, _, _)
Record_check_sequence_loop(rs, last, record_endex) ==
    IF rs = <<>> THEN ""
    ELSE
        LET record == Head(rs)
        IN  IF check(record) # "" THEN check(record)
            ELSE IF is_data(record) /\ last # <<>>
                    /\ overlaps(record, last[1])
            THEN "overlapping records"
            ELSE IF is_data(record) /\ last # <<>>
                    /\ AddrLt(record.address, record_endex)
            THEN "unsorted records"
            ELSE Record_check_sequence_loop(
                     Tail(rs),
                     IF is_data(record) THEN <<record>> ELSE last,
                     AddrAdd(record.address, Len(record.data)))

\* Record.check_sequence
Record_check_sequence(rs) == Record_check_sequence_loop(rs, <<>>, ToAddr(0))

\* The while loop of motorola.Record.check_sequence from position i on:
\* the message raised, or the position of the record that broke the loop
\* (Len(rs) + 1 when the records ran out) with the loop's variables.
RECURSIVE Motorola_check_sequence_loop(_, _, _, _, _, _)
Motorola_check_sequence_loop(rs, i, first_tag, data_count, header_found, count_found) ==
    IF i > Len(rs)
    THEN [err |-> "", at |-> i, first_tag |-> first_tag,
          header_found |-> header_found, count_found |-> count_found]
    ELSE
        LET record == rs[i]
            failed(msg) ==
                [err |-> msg, at |-> i, first_tag |-> first_tag,
                 header_found |-> header_found, count_found |-> count_found]
        IN  IF record.tag = HEADER
            THEN IF header_found THEN failed("header error")
                 ELSE Motorola_check_sequence_loop(
                          rs, i + 1, first_tag, data_count, TRUE, count_found)
            ELSE IF record.tag \in {DATA_16, DATA_24, DATA_32}
            THEN IF first_tag # None /\ record.tag # first_tag
                 THEN failed("tag error")
                 ELSE Motorola_check_sequence_loop(
                          rs, i + 1,
                          IF first_tag = None THEN record.tag ELSE first_tag,
                          data_count + 1, header_found, count_found)
            ELSE IF record.tag \in {COUNT_16, COUNT_24}
            THEN IF count_found THEN failed("misplaced count")
                 ELSE IF Len(record.data)
                             # (IF record.tag = COUNT_16 THEN 2 ELSE 3)
                 THEN failed("struct.error")
                 ELSE IF BigEndian(record.data) # data_count
                 THEN failed("record count error")
                 ELSE Motorola_check_sequence_loop(
                          rs, i + 1, first_tag, data_count, header_found, TRUE)
            ELSE failed("")

\* A check of the sequence that does not ask for a header.
Motorola_check_sequence_any_header(rs) ==
    IF Record_check_sequence(rs) # "" THEN Record_check_sequence(rs)
    ELSE
        LET loop == Motorola_check_sequence_loop(rs, 1, None, 0, FALSE, FALSE)
        IN  IF loop.err # "" THEN loop.err
            ELSE IF ~ loop.count_found THEN "missing count"
            ELSE IF loop.at > Len(rs) THEN "missing start"
            ELSE IF rs[loop.at].tag \notin {START_32, START_24, START_16}
            THEN "tag error"
            ELSE IF loop.first_tag # MATCHING_TAG[rs[loop.at].tag + 1]
            THEN "matching tag error"
            ELSE IF loop.at < Len(rs) THEN "sequence length error"
            ELSE ""

\* motorola.Record.check_sequence
Motorola_check_sequence(rs) ==
    IF Record_check_sequence(rs) # "" THEN Record_check_sequence(rs)
    ELSE
        LET loop == Motorola_check_sequence_loop(rs, 1, None, 0, FALSE, FALSE)
        IN  IF loop.err # "" THEN loop.err
            ELSE IF ~ loop.count_found THEN "missing count"
            ELSE IF ~ loop.header_found THEN "missing header"
            ELSE IF loop.at > Len(rs) THEN "missing start"
            ELSE IF rs[loop.at].tag \notin {START_32, START_24, START_16}
            THEN "tag error"
            ELSE IF loop.first_tag # MATCHING_TAG[rs[loop.at].tag + 1]
            THEN "matching tag error"
            ELSE IF loop.at < Len(rs) THEN "sequence length error"
            ELSE ""

\* mos.Record.check_sequence
Mos_check_sequence(rs) ==
    IF Record_check_sequence(rs) # "" THEN Record_check_sequence(rs)
    ELSE IF Len(rs) < 1 THEN "missing terminator"
    ELSE
        LET record_count == Len(rs) - 1
            record == rs[Len(rs)]
        IN  IF record.address # ToAddr(record_count)
               \/ record.checksum # record_count
            THEN "wrong terminator"
            ELSE ""

\* cls.check_sequence(records)
check_sequence(cls, rs) ==
    IF cls = Intel THEN Record_check_sequence(rs)
    ELSE IF cls = Motorola THEN Motorola_check_sequence(rs)
    ELSE Mos_check_sequence(rs)

-----------------------------------------------------------------------------
(* blocks: merge(union(...)), the last-writer-wins merge of (start, items) *)

\* The addresses a block covers.
Cells(block) == {AddrAdd(block[1], i) : i \in 0..(Len(block[2]) - 1)}

\* The memory image after writing a block over it.
Write(mem, block) ==
    [a \in (DOMAIN mem) \cup Cells(block) |->
        IF a \in Cells(block) THEN block[2][AddrSub(a, block[1]) + 1]
        ELSE mem[a]]

\* The memory image after writing the blocks in their order.
RECURSIVE WriteAll(_, _)
WriteAll(mem, bs) ==
    IF bs = <<>> THEN mem ELSE WriteAll(Write(mem, Head(bs)), Tail(bs))

RECURSIVE SortAddresses(_)
SortAddresses(S) ==
    IF S = {} THEN <<>>
    ELSE LET m == CHOOSE x \in S : \A y \in S : AddrLe(x, y)
         IN  <<m>> \o SortAddresses(S \ {m})

\* The items stored from address a up to the next gap.
RECURSIVE Run(_, _)
Run(mem, a) ==
    IF a \in DOMAIN mem THEN <<mem[a]>> \o Run(mem, AddrAdd(a, 1)) ELSE <<>>

\* union(*sequences): the blocks of all sequences, in their order
RECURSIVE union(_)
union(bss) == IF bss = <<>> THEN <<>> ELSE Head(bss) \o union(Tail(bss))

\* merge(blocks): later blocks overwrite earlier ones; the result is the
\* sorted list of the maximal runs of written items
merge(bs) ==
    LET mem == WriteAll(<<>>, bs)
        starts == {a \in DOMAIN mem : AddrAdd(a, -1) \notin DOMAIN mem}
        order == SortAddresses(starts)
    IN  [i \in 1..Len(order) |-> <<order[i], Run(mem, order[i])>>]

-----------------------------------------------------------------------------
(* records.py: the bridge between records and blocks *)

\* A filter that keeps every record.
every_record(rs) == rs

get_data_records(rs) == SelectSeq(rs, is_data)

\* The pairs taken from the last record to the first.
AsBlocksReversed(rs) ==
    [i \in 1..Len(rs) |->
        <<rs[Len(rs) + 1 - i].address, rs[Len(rs) + 1 - i].data>>]

\* [(r.address, r.data) for r in records]
AsBlocks(rs) == [i \in 1..Len(rs) |-> <<rs[i].address, rs[i].data>>]

records_to_blocks(rs) == merge(union(<<AsBlocks(get_data_records(rs))>>))

\* The data records of each block, split with the defaults columns=16,
\* align=True, and standalone=False.
RECURSIVE SplitBlocks(_, _)
SplitBlocks(bs, record_type) ==
    IF bs = <<>> THEN Ok(<<>>)
    ELSE LET one == split(record_type, Head(bs)[2], Head(bs)[1], 16, TRUE, FALSE)
             rest == SplitBlocks(Tail(bs), record_type)
         IN  IF one.err # "" THEN one
             ELSE IF rest.err # "" THEN rest
             ELSE Ok(one.val \o rest.val)

blocks_to_records(bs, record_type) ==
    LET data_records == SplitBlocks(bs, record_type)
    IN  IF data_records.err # "" THEN data_records
        ELSE build_standalone(record_type, data_records.val)

\* The blocks merge_records() merges its sequences into.
merged_blocks(data_records) ==
    merge(union([i \in 1..Len(data_records) |-> AsBlocks(data_records[i])]))

\* merge_records(data_records, output_type=output_type)
merge_records(data_records, output_type) ==
    blocks_to_records(merged_blocks(data_records), output_type)

\* A conversion that leaves out the is_data() filter.
convert_all_records(rs, output_type) ==
    IF rs = <<>> THEN Raise("IndexError")
    ELSE merge_records(<<rs>>, output_type)

\* convert_records(records, output_type=output_type)
convert_records(rs, output_type) ==
    IF rs = <<>> THEN Raise("IndexError")
    ELSE merge_records(<<SelectSeq(rs, is_data)>>, output_type)

-----------------------------------------------------------------------------
(* Record files: write_records() and read_records() *)

LINE_SEP == <<"\n">>

\* The lines cls.write_records(stream, records) writes to the stream.
write_records(rs) ==
    LET texts == Collect([i \in 1..Len(rs) |-> marshal(rs[i])])
    IN  IF texts.err # "" THEN texts
        ELSE Ok([i \in 1..Len(rs) |-> texts.val[i] \o LINE_SEP])

\* cls.read_records(stream): [cls.unmarshal(line) for line in stream]
read_records(cls, text) ==
    Collect([i \in 1..Len(text) |-> parse_record(cls, text[i])])

-----------------------------------------------------------------------------
(* Splitting a buffer into records, saving and loading them *)

MaxLen == 6

\* bytes(range(1, n + 1))
Ramp(n) == [i \in 1..n |-> i]

\* Buffers handed to split(): every length up to MaxLen, and b'A' * 32.
SplitData == {Ramp(n) : n \in 0..MaxLen} \cup {Fill(32, 65)}

\* 0, 5, 0xFFF8, 0xFFFE, 0x10000, 0x1FFFE, 0xFFFFFE, 0xFFFFFFFC, 0x100000000
SplitAddresses ==
    {Addr(0, 0), Addr(0, 5), Addr(0, 65528), Addr(0, 65534), Addr(1, 0),
     Addr(1, 65534), Addr(255, 65534), Addr(65535, 65532), Addr(65536, 0)}

SplitColumns == {0, 3, 16, 128, 255}

\* records = list(cls.split(data, address, columns, align, standalone))
CallSplit(cls, data, address, columns, align, standalone) ==
    LET res == split(cls, data, address, columns, align, standalone)
    IN  /\ calls = <<>>
        /\ calls' = <<"split">>
        /\ args' = [NoArgs EXCEPT !.call = "split", !.cls = cls,
                                  !.address = address, !.data = data,
                                  !.columns = columns, !.align = align,
                                  !.standalone = standalone]
        /\ records' = IF res.err = "" THEN res.val ELSE <<>>
        /\ err' = res.err
        /\ UNCHANGED <<rec, line, parsed, seqs, lines, blocks>>

\* cls.write_records(stream, records)
CallWriteRecords ==
    /\ Last("split") \/ Last("terminate")
    /\ err = ""
    /\ LET res == write_records(records)
       IN  /\ lines' = IF res.err = "" THEN res.val ELSE <<>>
           /\ err' = res.err
    /\ calls' = Append(calls, "write_records")
    /\ UNCHANGED <<args, rec, line, parsed, records, seqs, blocks>>

\* records = cls.read_records(stream)
CallReadRecords ==
    /\ Last("write_records")
    /\ err = ""
    /\ LET res == read_records(args.cls, lines)
       IN  /\ records' = IF res.err = "" THEN res.val ELSE <<>>
           /\ err' = res.err
    /\ calls' = Append(calls, "read_records")
    /\ UNCHANGED <<args, rec, line, parsed, seqs, lines, blocks>>

\* cls.readdress(records)
CallReaddress ==
    /\ Last("read_records")
    /\ err = ""
    /\ LET res == readdress(args.cls, records)
       IN  /\ records' = res.val
           /\ err' = res.err
    /\ calls' = Append(calls, "readdress")
    /\ UNCHANGED <<args, rec, line, parsed, seqs, lines, blocks>>

\* blocks = records_to_blocks(records)
CallRecordsToBlocks ==
    /\ calls # <<>>
    /\ calls[Len(calls)]
           \in {"split", "readdress", "convert_records"}
    /\ err = ""
    /\ blocks' = records_to_blocks(records)
    /\ calls' = Append(calls, "records_to_blocks")
    /\ UNCHANGED <<args, rec, line, parsed, records, seqs, lines, err>>

SplitNext ==
    \/ \E cls \in RecordTypes, data \in SplitData, address \in SplitAddresses,
          columns \in SplitColumns, align \in BOOLEAN, standalone \in BOOLEAN :
          CallSplit(cls, data, address, columns, align, standalone)
    \/ CallWriteRecords
    \/ CallReadRecords
    \/ CallReaddress
    \/ CallRecordsToBlocks

SpecSplit == Init /\ [][SplitNext]_vars

-----------------------------------------------------------------------------
(* Properties of split() *)

\* split() returned, for a buffer that is not empty
SplitDone(cls) ==
    /\ calls # <<>>
    /\ calls[1] = "split"
    /\ args.cls = cls
    /\ args.data # <<>>
    /\ (Len(calls) = 1 => err = "")

\* C1: for each format, a non-empty buffer d and an address a that split()
\* accepts with the given columns and align, standalone or not,
\* records_to_blocks(split(d, a)) == [(a, d)].
C1_SplitThenBlocks ==
    \A cls \in RecordTypes :
        (SplitDone(cls) /\ calls = <<"split", "records_to_blocks">>)
            => blocks = <<<<args.address, args.data>>>>

\* A standalone Motorola sequence of several data records at the top of the
\* address space was turned back into its single block.
C1_Witness ==
    /\ SplitDone(Motorola)
    /\ calls = <<"split", "records_to_blocks">>
    /\ args.standalone
    /\ args.address = Addr(65535, 65532)
    /\ Len(get_data_records(records)) > 1
    /\ blocks = <<<<args.address, args.data>>>>

\* C5: the records of Intel split(d, a), d not empty, written as lines, read
\* back, readdressed and turned into blocks give [(a, d)], with no error on
\* the way.
C5_IntelSaveLoadRoundTrip ==
    (SplitDone(Intel) /\ Len(calls) > 1 /\ calls[2] = "write_records")
        => /\ err = ""
           /\ Last("records_to_blocks")
                  => blocks = <<<<args.address, args.data>>>>

\* Three bytes split at 0x1FFFE came back as two bytes at 0xFFFE and one
\* byte at 0x20000.
C5_Witness ==
    /\ SplitDone(Intel)
    /\ calls = <<"split", "write_records", "read_records", "readdress",
                 "records_to_blocks">>
    /\ args.address = Addr(1, 65534)
    /\ args.data = <<1, 2, 3>>
    /\ args.columns = 3
    /\ err = ""
    /\ blocks = <<<<Addr(0, 65534), <<1, 2>>>>, <<Addr(2, 0), <<3>>>>>>

\* The addresses of the chunks chop() cuts, the first one at `address`.
RECURSIVE ChunkStarts(_, _)
ChunkStarts(chunks, address) ==
    IF chunks = <<>> THEN <<>>
    ELSE <<address>> \o ChunkStarts(Tail(chunks),
                                    AddrAdd(address, Len(Head(chunks))))

\* The record is a data record holding `data` at `address`.
IsDataAt(r, address, data) ==
    r.tag = DATA /\ r.address = address /\ r.data = data

\* The record is an extended linear address record of the given high word.
IsELA(r, high) ==
    r.tag = EXTENDED_LINEAR_ADDRESS /\ r.data = <<high \div 256, high % 256>>

\* records[i..i+2] are data [s, b), the extended linear address of b, and
\* data [b, e) of the chunk at s.
CutAt(rs, i, s, chunk) ==
    LET b == Addr(s.hi + 1, 0)
        pivot == 65536 - s.lo
    IN  /\ i + 2 <= Len(rs)
        /\ IsDataAt(rs[i], s, Slice(chunk, 0, pivot))
        /\ IsELA(rs[i + 1], b.hi)
        /\ IsDataAt(rs[i + 2], b, Slice(chunk, pivot, Len(chunk)))

\* C6: Intel split emits no data record that spans a 64 KiB boundary; a chunk
\* whose first and last byte lie in different 64 KiB segments comes out as
\* data [s, b), an EXTENDED_LINEAR_ADDRESS record holding b >> 16, and
\* data [b, e); split(b'A' * 32, 0xFFF8, columns=16) holds such a record with
\* value 1 between the data ending at 0x10000 and the data starting there.
C6_IntelBoundaryCut ==
    (SplitDone(Intel) /\ calls = <<"split">>)
        => LET chunks == chop(args.data, args.columns,
                              IF args.align
                              THEN AddrMod(args.address, args.columns) ELSE 0)
               starts == ChunkStarts(chunks, args.address)
           IN  /\ \A i \in 1..Len(records) :
                      (records[i].tag = DATA /\ records[i].data # <<>>)
                          => AddrAdd(records[i].address,
                                     Len(records[i].data) - 1).hi
                             = records[i].address.hi
               /\ \A k \in 1..Len(chunks) :
                      (AddrAdd(starts[k], Len(chunks[k]) - 1).hi
                       # starts[k].hi)
                          => \E i \in 1..Len(records) :
                                 CutAt(records, i, starts[k], chunks[k])
               /\ (/\ args.data = Fill(32, 65)
                   /\ args.address = Addr(0, 65528)
                   /\ args.columns = 16)
                      => \E i \in 1..(Len(records) - 2) :
                             /\ records[i].tag = DATA
                             /\ AddrAdd(records[i].address,
                                        Len(records[i].data)) = Addr(1, 0)
                             /\ IsELA(records[i + 1], 1)
                             /\ records[i + 2].tag = DATA
                             /\ records[i + 2].address = Addr(1, 0)

\* A chunk that starts below 0x20000 and ends above it was cut there.
C6_Witness ==
    /\ SplitDone(Intel)
    /\ calls = <<"split">>
    /\ ~args.align
    /\ args.address = Addr(1, 65534)
    /\ \E i \in 1..Len(records) :
           /\ i + 2 <= Len(records)
           /\ IsDataAt(records[i], Addr(1, 65534), <<1, 2>>)
           /\ IsELA(records[i + 1], 2)
           /\ records[i + 2].address = Addr(2, 0)
           /\ records[i + 2].data # <<>>

-----------------------------------------------------------------------------
(* Merging and converting record sequences *)

MaxSpan == 2

MaxRecords == 2

\* Payloads of the records to merge: n bytes that tell the payloads apart.
Span(n) == [i \in 1..n |-> 10 * n + i]

MergeData == {Span(n) : n \in 0..MaxSpan}

\* 0xFFFF, and 0xFFFFFFFF where a record may lie there
MergeAddresses(cls) ==
    {Addr(0, 65535)} \cup (IF cls = Mos THEN {} ELSE {Addr(65535, 65535)})

\* 0, 1
LowAddresses == {Addr(0, 0), Addr(0, 1)}

\* A record of the class that is not a data record.
Framing(cls) ==
    IF cls = Intel
    THEN {Intel_build_extended_linear_address(Addr(1, 0)).val}
    ELSE IF cls = Motorola
    THEN {Motorola_build_header(Span(1)).val}
    ELSE {Mos_build_terminator(0).val}

\* The records of a class, each one built without error and passing check().
Pool(cls, addresses) ==
    {r \in {build_data(cls, a, d).val :
                <<a, d>> \in {x \in addresses \X MergeData :
                                 build_data(cls, x[1], x[2]).err = ""}}
        \cup Framing(cls) : check(r) = ""}

\* The records of the sequence merged over another one.
Overlay(cls) == {build_data(cls, Addr(0, 1), Span(1)).val} \cup Framing(cls)

\* The sequences of one up to MaxRecords records of a set.
SeqsOf(S) == UNION {[1..n -> S] : n \in 1..MaxRecords}

\* records = convert_records(records, output_type=output_type)
CallConvertRecords(cls, rs, output_type) ==
    LET res == convert_records(rs, output_type)
    IN  /\ calls = <<>>
        /\ calls' = <<"convert_records">>
        /\ args' = [NoArgs EXCEPT !.call = "convert_records", !.cls = cls,
                                  !.output_type = output_type]
        /\ seqs' = <<rs>>
        /\ records' = IF res.err = "" THEN res.val ELSE <<>>
        /\ err' = res.err
        /\ UNCHANGED <<rec, line, parsed, lines, blocks>>

\* records = merge_records(data_records): the output type is the type of the
\* first sequence; `blocks` is the local variable of that name.
CallMergeRecords(cls, data_records) ==
    LET res == merge_records(data_records, cls)
    IN  /\ calls = <<>>
        /\ calls' = <<"merge_records">>
        /\ args' = [NoArgs EXCEPT !.call = "merge_records", !.cls = cls,
                                  !.output_type = cls]
        /\ seqs' = data_records
        /\ blocks' = merged_blocks(data_records)
        /\ records' = IF res.err = "" THEN res.val ELSE <<>>
        /\ err' = res.err
        /\ UNCHANGED <<rec, line, parsed, lines>>

\* blocks = records_to_blocks(records), on records as they were given
CallRecordsToBlocksOf(cls, rs) ==
    /\ calls = <<>>
    /\ calls' = <<"records_to_blocks">>
    /\ args' = [NoArgs EXCEPT !.call = "records_to_blocks", !.cls = cls]
    /\ seqs' = <<rs>>
    /\ blocks' = records_to_blocks(rs)
    /\ UNCHANGED <<rec, line, parsed, records, lines, err>>

\* Blocks that end below 2^16, at 2^16, above 2^16 and above 2^24.
BlockPool ==
    {<<a, Span(n)>> : a \in {Addr(0, 0), Addr(0, 65535), Addr(256, 0)},
                      n \in 1..2}

\* Block sequences sorted by start address, no block reaching the next one.
BlockSeqs ==
    {bs \in {<<>>} \cup SeqsOf(BlockPool) :
        \A i \in 1..(Len(bs) - 1) :
            AddrLt(AddrAdd(bs[i][1], Len(bs[i][2])), bs[i + 1][1])}

\* records = blocks_to_records(blocks, record_type)
CallBlocksToRecords(bs, record_type) ==
    LET res == blocks_to_records(bs, record_type)
    IN  /\ calls = <<>>
        /\ calls' = <<"blocks_to_records">>
        /\ args' = [NoArgs EXCEPT !.call = "blocks_to_records",
                                  !.cls = record_type,
                                  !.output_type = record_type]
        /\ blocks' = bs
        /\ records' = IF res.err = "" THEN res.val ELSE <<>>
        /\ err' = res.err
        /\ UNCHANGED <<rec, line, parsed, seqs, lines>>

\* cls.check_sequence(records) on the records just returned
CallCheckSequenceAfter ==
    /\ calls # <<>>
    /\ calls[Len(calls)] \in {"split", "blocks_to_records"}
    /\ err = ""
    /\ err' = check_sequence(IF args.output_type # NoArgs.output_type
                             THEN args.output_type ELSE args.cls, records)
    /\ calls' = Append(calls, "check_sequence")
    /\ UNCHANGED <<args, rec, line, parsed, records, seqs, lines, blocks>>

MergeNext ==
    \/ \E cls \in RecordTypes, output_type \in RecordTypes :
          \E rs \in SeqsOf(Pool(cls, MergeAddresses(cls))) :
              CallConvertRecords(cls, rs, output_type)
    \/ \E cls \in RecordTypes :
          \E rs \in SeqsOf(Pool(cls, LowAddresses)) :
              \/ CallMergeRecords(cls, <<rs>>)
              \/ \E r \in Overlay(cls) :
                     CallMergeRecords(cls, <<rs, <<r>>>>)
    \/ \E cls \in RecordTypes :
          \E rs \in SeqsOf(Pool(cls, LowAddresses)) :
              CallRecordsToBlocksOf(cls, rs)
    \/ CallRecordsToBlocks

SpecMerge == Init /\ [][MergeNext]_vars

-----------------------------------------------------------------------------
(* Properties of convert_records(), merge_records(), records_to_blocks() *)

\* convert_records() was called on a sequence of records that pass check()
Converted ==
    /\ calls # <<>>
    /\ calls[1] = "convert_records"
    /\ \A i \in 1..Len(seqs[1]) : check(seqs[1][i]) = ""

\* C3, as stated: for a non-empty sequence X of records of one format that
\* pass check() and any output format Y, convert_records(X, output_type=Y)
\* returns records whose records_to_blocks equals records_to_blocks(X).
C3_ConvertKeepsBlocksAny ==
    Converted
        => /\ err = ""
           /\ Last("records_to_blocks") => blocks = records_to_blocks(seqs[1])

\* 16 address bits for MOS, 32 for Intel and Motorola
AddressBits(cls) == IF cls = Mos THEN 16 ELSE 32

\* Every data byte of the records lies in the address space of the class.
HoldsData(cls, rs) ==
    \A i \in 1..Len(rs) :
        (is_data(rs[i]) /\ rs[i].data # <<>>)
            => InRangeIncl(AddrAdd(rs[i].address, Len(rs[i].data)),
                           AddressBits(cls))

\* C3, amended: when the address space of Y (2^16 bytes for MOS, 2^32 for
\* Intel and Motorola) holds every data byte of X, convert_records(X,
\* output_type=Y) returns records whose records_to_blocks equals
\* records_to_blocks(X); otherwise it raises an error.
C3_ConvertKeepsBlocks ==
    Converted
        => IF HoldsData(args.output_type, seqs[1])
           THEN /\ err = ""
                /\ Last("records_to_blocks")
                       => blocks = records_to_blocks(seqs[1])
           ELSE err # ""

\* Two Intel data records around 0x10000 and a framing record came out as
\* Motorola records holding the same block.
C3_Witness ==
    /\ Converted
    /\ calls = <<"convert_records", "records_to_blocks">>
    /\ args.cls = Intel
    /\ args.output_type = Motorola
    /\ \E i \in 1..Len(seqs[1]) : ~ is_data(seqs[1][i])
    /\ \E i \in 1..Len(records) : records[i].tag = DATA_24
    /\ blocks = <<<<Addr(0, 65535), Span(2)>>>>

\* The block covers the address.
Covers(block, a) ==
    AddrLe(block[1], a) /\ AddrLt(a, AddrAdd(block[1], Len(block[2])))

\* The byte the block holds at an address it covers.
ByteAt(block, a) == block[2][AddrSub(a, block[1]) + 1]

\* The blocks are what last-writer-wins makes of the inputs: not empty,
\* sorted, apart from each other, covering what the inputs cover with the
\* byte of the last input covering it.
LastWriterWins(inputs, result) ==
    /\ \A i \in 1..Len(result) : result[i][2] # <<>>
    /\ \A i \in 1..(Len(result) - 1) :
           AddrLt(AddrAdd(result[i][1], Len(result[i][2])), result[i + 1][1])
    /\ \A k \in 1..Len(inputs) :
           \A o \in 0..(Len(inputs[k][2]) - 1) :
               LET a == AddrAdd(inputs[k][1], o)
                   last == CHOOSE j \in k..Len(inputs) :
                               /\ Covers(inputs[j], a)
                               /\ \A m \in (j + 1)..Len(inputs) :
                                      ~ Covers(inputs[m], a)
               IN  \E i \in 1..Len(result) :
                       /\ Covers(result[i], a)
                       /\ ByteAt(result[i], a) = ByteAt(inputs[last], a)
    /\ \A i \in 1..Len(result) :
           \A o \in 0..(Len(result[i][2]) - 1) :
               \E k \in 1..Len(inputs) :
                   Covers(inputs[k], AddrAdd(result[i][1], o))

\* The (address, data) pairs of the records, in their order.
PairsOf(rs) == [i \in 1..Len(rs) |-> <<rs[i].address, rs[i].data>>]

\* C4: the blocks of records_to_blocks (over the data records, in their
\* order) and of merge_records (over the records of its sequences, in the
\* order of the list) are non-empty, sorted, non-overlapping and minimal,
\* and hold at every address some input covers the byte of the latest
\* input covering it, and nothing else.
C4_LastWriterWins ==
    /\ calls = <<"records_to_blocks">>
           => LastWriterWins(PairsOf(SelectSeq(seqs[1], is_data)), blocks)
    /\ calls = <<"merge_records">>
           => LastWriterWins(
                  PairsOf(seqs[1])
                  \o (IF Len(seqs) > 1 THEN PairsOf(seqs[2])
                      ELSE <<>>),
                  blocks)

\* A two-byte record at 1 over a two-byte record at 0, a one-byte record
\* of a later sequence at 1 over both.
C4_Witness ==
    /\ calls = <<"merge_records">>
    /\ Len(seqs) = 2
    /\ PairsOf(seqs[1])
           = <<<<Addr(0, 0), Span(2)>>, <<Addr(0, 1), Span(2)>>>>
    /\ PairsOf(seqs[2]) = <<<<Addr(0, 1), Span(1)>>>>
    /\ blocks = <<<<Addr(0, 0), <<21, 11, 22>>>>>>

-----------------------------------------------------------------------------
(* Framing: terminate(), build_standalone() and split(standalone=True) *)

\* The data records of a class handed to build_standalone().
DataPool(cls) ==
    {r \in Pool(cls, LowAddresses \cup MergeAddresses(cls)) : is_data(r)}

\* 0, 0x1234, 0x12345678
StartAddresses == {Addr(0, 0), Addr(0, 4660), Addr(4660, 22136)}

\* records = IntelRecord.terminate(start)
CallTerminate(start) ==
    LET res == Collect(Intel_terminate(start))
    IN  /\ calls = <<>>
        /\ calls' = <<"terminate">>
        /\ args' = [NoArgs EXCEPT !.call = "terminate", !.cls = Intel,
                                  !.address = start]
        /\ records' = IF res.err = "" THEN res.val ELSE <<>>
        /\ err' = res.err
        /\ UNCHANGED <<rec, line, parsed, seqs, lines, blocks>>

\* records = list(cls.build_standalone(data_records))
CallBuildStandalone(cls, data_records) ==
    LET res == build_standalone(cls, data_records)
    IN  /\ calls = <<>>
        /\ calls' = <<"build_standalone">>
        /\ args' = [NoArgs EXCEPT !.call = "build_standalone", !.cls = cls]
        /\ seqs' = <<data_records>>
        /\ records' = IF res.err = "" THEN res.val ELSE <<>>
        /\ err' = res.err
        /\ UNCHANGED <<rec, line, parsed, lines, blocks>>

StandaloneNext ==
    \/ \E start \in StartAddresses : CallTerminate(start)
    \/ \E cls \in RecordTypes :
          \E data_records \in {<<>>} \cup SeqsOf(DataPool(cls)) :
              CallBuildStandalone(cls, data_records)
    \/ \E cls \in RecordTypes, data \in SplitData, address \in SplitAddresses,
          align \in BOOLEAN :
          CallSplit(cls, data, address, 16, align, TRUE)
    \/ CallWriteRecords
    \/ CallCheckSequenceAfter

SpecStandalone == Init /\ [][StandaloneNext]_vars

\* ':020000040000FA\n'
Line_ELA0 ==
    <<":", "0", "2", "0", "0", "0", "0", "0", "4", "0", "0", "0", "0", "F",
      "A", "\n">>

\* ':0400000512345678E3\n'
Line_SLA12345678 ==
    <<":", "0", "4", "0", "0", "0", "0", "0", "5", "1", "2", "3", "4", "5",
      "6", "7", "8", "E", "3", "\n">>

\* ':00000001FF\n'
Line_EOF == <<":", "0", "0", "0", "0", "0", "0", "0", "1", "F", "F", "\n">>

\* rs[i..i+2] are EXTENDED_LINEAR_ADDRESS with value 0, START_LINEAR_ADDRESS
\* with `start` as 4 big-endian bytes, and END_OF_FILE.
IsTriple(rs, i, start) ==
    /\ IsELA(rs[i], 0)
    /\ rs[i + 1].tag = START_LINEAR_ADDRESS
    /\ rs[i + 1].data = <<start.hi \div 256, start.hi % 256,
                          start.lo \div 256, start.lo % 256>>
    /\ rs[i + 2].tag = END_OF_FILE
    /\ rs[i + 2].data = <<>>

\* The records but the last three hold no START_LINEAR_ADDRESS and no
\* END_OF_FILE record.
NoOtherEnd(rs) ==
    \A i \in 1..(Len(rs) - 3) :
        rs[i].tag \notin {START_LINEAR_ADDRESS, END_OF_FILE}

\* C11: Intel terminate(start) returns EXTENDED_LINEAR_ADDRESS with value
\* 0, START_LINEAR_ADDRESS with start as 4 big-endian bytes and END_OF_FILE,
\* in this order (for 0x12345678 the documented three lines); Intel
\* split(standalone=True) and build_standalone return their data part
\* followed by exactly this triple and hold no other START_LINEAR_ADDRESS
\* or END_OF_FILE record.
C11_IntelTermination ==
    /\ (calls # <<>> /\ calls[1] = "terminate")
           => /\ err = ""
              /\ Len(records) = 3
              /\ IsTriple(records, 1, args.address)
              /\ (Last("write_records") /\ args.address = Addr(4660, 22136))
                     => lines = <<Line_ELA0, Line_SLA12345678, Line_EOF>>
    /\ (calls = <<"build_standalone">> /\ args.cls = Intel)
           => /\ err = ""
              /\ Len(records) = Len(seqs[1]) + 3
              /\ SubSeq(records, 1, Len(seqs[1])) = seqs[1]
              /\ IsTriple(records, Len(seqs[1]) + 1,
                          IF seqs[1] = <<>> THEN Addr(0, 0)
                          ELSE MinAddress(seqs[1]))
              /\ NoOtherEnd(records)
    /\ (calls = <<"split">> /\ args.cls = Intel /\ args.standalone /\ err = "")
           => /\ Len(records) >= 3
              /\ SubSeq(records, 1, Len(records) - 3)
                     = split(Intel, args.data, args.address, args.columns,
                             args.align, FALSE).val
              /\ IsTriple(records, Len(records) - 2, args.address)
              /\ NoOtherEnd(records)

\* terminate(0x12345678) was written as the three documented lines.
C11_Witness ==
    /\ calls = <<"terminate", "write_records">>
    /\ args.address = Addr(4660, 22136)
    /\ err = ""
    /\ Len(lines) = 3

\* rs is one header, then n data records, then one count record holding n,
\* then one terminator matching the highest tag of the data records.
MotorolaFramed(rs) ==
    LET n == Len(rs) - 3
    IN  /\ n >= 0
        /\ rs[1].tag = HEADER
        /\ \A i \in 2..(n + 1) : is_data(rs[i])
        /\ rs[n + 2].tag \in {COUNT_16, COUNT_24}
        /\ BigEndian(rs[n + 2].data) = n
        /\ rs[n + 3].tag \in {START_32, START_24, START_16}
        /\ n > 0 => MATCHING_TAG[rs[n + 3].tag + 1]
                        = MaxTag(SubSeq(rs, 2, n + 1))

\* A Motorola build_standalone or split(standalone=True) has returned.
MotorolaStandaloneDone ==
    /\ args.cls = Motorola
    /\ err = ""
    /\ \/ calls = <<"build_standalone">>
       \/ calls = <<"split">> /\ args.standalone

\* C12: Motorola build_standalone(data_records) and split(standalone=True)
\* emit one header record, the data records, one count record whose value
\* is the number of data records emitted, and one terminator whose tag t
\* has MATCHING_TAG[t] equal to the highest tag of the emitted data records,
\* in this order.
C12_MotorolaStandaloneOrder ==
    /\ MotorolaStandaloneDone => MotorolaFramed(records)
    /\ (calls = <<"build_standalone">> /\ args.cls = Motorola) => err = ""

\* Two data records of different tags were framed.
C12_Witness ==
    /\ calls = <<"build_standalone">>
    /\ MotorolaStandaloneDone
    /\ Len(records) = 5
    /\ records[2].tag # records[3].tag

-----------------------------------------------------------------------------
(* Sequences of records handed to check_sequence() and readdress() *)

MaxSequence == 5

\* The records the sequences are made of: two one-byte data records (at 0
\* and 2 for Motorola, adjacent at 0 and 1 for the others) and the framing
\* records of the class.
SequencePool(cls) ==
    LET A == build_data(cls, ToAddr(0), Span(1)).val
        B == build_data(cls, ToAddr(IF cls = Motorola THEN 2 ELSE 1),
                        Span(1)).val
    IN  IF cls = Intel
        THEN {A, B,
              Intel_build_extended_linear_address(Addr(1, 0)).val,
              Intel_init(ToAddr(0), EXTENDED_SEGMENT_ADDRESS, <<18, 52>>,
                         Ellipsis).val,
              Intel_build_end_of_file.val}
        ELSE IF cls = Motorola
        THEN {A, B,
              Motorola_build_header(<<>>).val,
              Motorola_build_count(1).val,
              Motorola_build_count(2).val,
              Motorola_build_terminator(ToAddr(0), DATA_16).val}
        ELSE {A, B,
              Mos_build_terminator(0).val,
              Mos_build_terminator(1).val,
              Mos_build_terminator(2).val}

Sequences(cls) ==
    {<<>>} \cup UNION {[1..n -> SequencePool(cls)] : n \in 1..MaxSequence}

\* cls.check_sequence(records)
CallCheckSequence(cls, rs) ==
    /\ calls = <<>>
    /\ calls' = <<"check_sequence">>
    /\ args' = [NoArgs EXCEPT !.call = "check_sequence", !.cls = cls]
    /\ records' = rs
    /\ err' = check_sequence(cls, rs)
    /\ UNCHANGED <<rec, line, parsed, seqs, lines, blocks>>

\* cls.readdress(records), in place; seqs keeps the list as it was.
CallReaddressOf(cls, rs) ==
    LET res == readdress(cls, rs)
    IN  /\ calls = <<>>
        /\ calls' = <<"readdress">>
        /\ args' = [NoArgs EXCEPT !.call = "readdress", !.cls = cls]
        /\ seqs' = <<rs>>
        /\ records' = res.val
        /\ err' = res.err
        /\ UNCHANGED <<rec, line, parsed, lines, blocks>>

SequenceNext ==
    \/ /\ calls = <<>>
       /\ \E cls \in RecordTypes : \E rs \in Sequences(cls) :
              CallCheckSequence(cls, rs)
    \/ /\ calls = <<>>
       /\ \E rs \in Sequences(Intel) : CallReaddressOf(Intel, rs)

SpecSequence == Init /\ [][SequenceNext]_vars

\* check_sequence of the class has returned or raised.
Checked(cls) == calls = <<"check_sequence">> /\ args.cls = cls

\* The positions of the records of rs with a tag of the set.
Tagged(rs, tags) == {i \in 1..Len(rs) : rs[i].tag \in tags}

\* The positions of the data records of rs.
DataAt(rs) == {i \in 1..Len(rs) : is_data(rs[i])}

\* C13: Motorola check_sequence accepts a sequence only if it holds exactly
\* one count record (COUNT_16 or COUNT_24) whose decoded value is the total
\* number of data records of the sequence, wherever the count record
\* stands; a sequence with no count record is rejected.
C13_CountIsTotal ==
    Checked(Motorola) =>
        /\ err = "" =>
               /\ Cardinality(Tagged(records, {COUNT_16, COUNT_24})) = 1
               /\ \A i \in Tagged(records, {COUNT_16, COUNT_24}) :
                      BigEndian(records[i].data)
                          = Cardinality(DataAt(records))
        /\ Tagged(records, {COUNT_16, COUNT_24}) = {} => err # ""

\* A sequence was accepted whose count record holds 1 and stands between
\* its two data records.
C13_Witness ==
    /\ Checked(Motorola)
    /\ err = ""
    /\ Len(records) = 5
    /\ records[3] = Motorola_build_count(1).val
    /\ DataAt(records) = {2, 4}

\* rs is sorted data records of one tag, then the count record holding
\* their number, then the terminator matching their tag, and no header.
HeaderlessGrammar(rs) ==
    LET n == Len(rs) - 2
    IN  /\ n >= 1
        /\ Record_check_sequence(rs) = ""
        /\ \A i \in 1..n : is_data(rs[i]) /\ rs[i].tag = rs[1].tag
        /\ rs[n + 1].tag \in {COUNT_16, COUNT_24}
        /\ BigEndian(rs[n + 1].data) = n
        /\ rs[n + 2].tag \in {START_32, START_24, START_16}
        /\ MATCHING_TAG[rs[n + 2].tag + 1] = rs[1].tag

C15_MosTerminator ==
    Checked(Mos) =>
        LET n == Len(records)
            data_count == Cardinality(DataAt(records))
        IN  /\ err = "" =>
                   /\ n >= 1
                   /\ records[n].count = 0
                   /\ \A i \in 1..(n - 1) : records[i].count # 0
                   /\ records[n].address = ToAddr(data_count)
                   /\ records[n].checksum = data_count
            /\ (n >= 1 /\ records[n].count = 0
                /\ records[n].address # ToAddr(data_count)) => err # ""

\* The terminator for no record followed by the terminator for one record
\* was accepted.
C15_Witness ==
    /\ Checked(Mos)
    /\ records = <<Mos_build_terminator(0).val, Mos_build_terminator(1).val>>
    /\ err = ""

\* Some record of rs fails check(), or two data records of rs overlap, or
\* a data record of rs starts below the end of an earlier data record.
BadData(rs) ==
    \/ \E i \in 1..Len(rs) : check(rs[i]) # ""
    \/ \E i, j \in DataAt(rs) :
           /\ i < j
           /\ \/ overlaps(rs[j], rs[i])
              \/ AddrLt(rs[j].address,
                        AddrAdd(rs[i].address, Len(rs[i].data)))

\* C16: the generic Record.check_sequence raises exactly when some record
\* fails check(), or two data records overlap, or a data record starts
\* below the end of an earlier data record; the address and data of
\* non-data records never cause and never suppress an error.
C16_OnlyDataRecordsCount ==
    Checked(Intel) => (err # "" <=> BadData(records))

\* Two adjacent data records in order, with an extended linear address
\* record between them, were rejected as unsorted.
C16_Witness ==
    /\ Checked(Intel)
    /\ Len(records) = 3
    /\ DataAt(records) = {1, 3}
    /\ records[2].tag = EXTENDED_LINEAR_ADDRESS
    /\ ~ BadData(records)
    /\ err = "unsorted records"

\* The positions up to i of the extended segment and extended linear
\* address records of rs.
BasesUpTo(rs, i) ==
    {j \in 1..i : rs[j].tag \in {EXTENDED_SEGMENT_ADDRESS,
                                 EXTENDED_LINEAR_ADDRESS}}

\* The base in force at position i of rs: 0, or the 16-bit payload of the
\* most recent extended address record, shifted by 4 bits (segment) or by
\* 16 bits (linear).
BaseAt(rs, i) ==
    IF BasesUpTo(rs, i) = {} THEN ToAddr(0)
    ELSE LET j == CHOOSE k \in BasesUpTo(rs, i) :
                      \A m \in BasesUpTo(rs, i) : m <= k
             value == 256 * rs[j].data[1] + rs[j].data[2]
         IN  IF rs[j].tag = EXTENDED_SEGMENT_ADDRESS
             THEN Addr(value \div 4096, (value % 4096) * 16)
             ELSE Addr(value, 0)

\* C17: Intel readdress walks the records in order with a base that starts
\* at 0: an EXTENDED_SEGMENT_ADDRESS record sets base to its 16-bit payload
\* << 4, an EXTENDED_LINEAR_ADDRESS record sets base to its 16-bit payload
\* << 16 and gets base as its own address, and every other record gets
\* base + its previous address, base being set by the most recent extended
\* address record before it.
C17_IntelReaddress ==
    (calls = <<"readdress">> /\ args.cls = Intel) =>
        /\ err = ""
        /\ Len(records) = Len(seqs[1])
        /\ \A i \in 1..Len(records) :
               /\ records[i] = [seqs[1][i] EXCEPT !.address = records[i].address]
               /\ records[i].address =
                      IF i \in BasesUpTo(seqs[1], i)
                      THEN BaseAt(seqs[1], i)
                      ELSE AddrAdd(BaseAt(seqs[1], i),
                                   AddrInt(seqs[1][i].address))

\* A data record after a segment record and a data record after a linear
\* record were readdressed: to 0x12340 and to 0x10001.
C17_Witness ==
    /\ calls = <<"readdress">>
    /\ err = ""
    /\ Len(records) = 4
    /\ records[1].tag = EXTENDED_SEGMENT_ADDRESS
    /\ records[2].tag = DATA
    /\ records[2].address = Addr(1, 9024)
    /\ records[3].tag = EXTENDED_LINEAR_ADDRESS
    /\ records[4].tag = DATA
    /\ records[4].address = Addr(1, 1)

\* C18: for every format, build_standalone(data_records) emits the given
\* data records unchanged and in the same order and adds only non-data
\* framing records: the is_data() records of the output are the input
\* sequence, also when the input sequence is empty.
C18_StandaloneKeepsData ==
    calls = <<"build_standalone">> =>
        /\ err = ""
        /\ SelectSeq(records, is_data) = seqs[1]

\* Motorola build_standalone of no record returned a data record.
C18_Witness ==
    /\ calls = <<"build_standalone">>
    /\ args.cls = Motorola
    /\ seqs[1] = <<>>
    /\ err = ""
    /\ Len(records) = 4
    /\ is_data(records[2])

-----------------------------------------------------------------------------
(* The arguments of split(): columns, address and size at their limits *)

Binary == "binary"

\* formats.binary.Record.split(data, address) with columns=None: the whole
\* data as one record, for an address and an end within 32 bits.
Binary_split(data, address) ==
    IF ~ InRange(address, 32) THEN Raise("address overflow")
    ELSE IF ~ InRangeIncl(AddrAdd(address, Len(data)), 32)
    THEN Raise("size overflow")
    ELSE Ok(<<NewRecord(Binary, address, 0, data, Len(data),
                        sum_bytes(data) % 256)>>)

\* -1, 0, 0xFFFE, 0xFFFF, 0x10000, 0xFFFFFFFE, 0xFFFFFFFF, 0x100000000
LimitAddresses ==
    {Addr(-1, 65535), Addr(0, 0), Addr(0, 65534), Addr(0, 65535), Addr(1, 0),
     Addr(65535, 65534), Addr(65535, 65535), Addr(65536, 0)}

LimitColumns == {-1, 0, 1, 127, 128, 129, 254, 255, 256}

LimitData == {Ramp(n) : n \in 0..(MaxLen \div 2)}

\* records = list(binary.Record.split(data, address))
CallBinarySplit(data, address) ==
    LET res == Binary_split(data, address)
    IN  /\ calls = <<>>
        /\ calls' = <<"split">>
        /\ args' = [NoArgs EXCEPT !.call = "split", !.cls = Binary,
                                  !.address = address, !.data = data]
        /\ records' = IF res.err = "" THEN res.val ELSE <<>>
        /\ err' = res.err
        /\ UNCHANGED <<rec, line, parsed, seqs, lines, blocks>>

SplitArgsNext ==
    \/ \E cls \in RecordTypes, data \in LimitData, address \in LimitAddresses,
          columns \in LimitColumns, align \in BOOLEAN, standalone \in BOOLEAN :
          CallSplit(cls, data, address, columns, align, standalone)
    \/ \E data \in LimitData, address \in LimitAddresses :
          CallBinarySplit(data, address)

SpecSplitArgs == Init /\ [][SplitArgsNext]_vars

\* The address width of the class in bits.
WidthOf(cls) == IF cls = Mos THEN 16 ELSE 32

\* A split of the class was called with an address and a size in range.
SplitInRange(cls) ==
    /\ calls = <<"split">>
    /\ args.cls = cls
    /\ InRange(args.address, WidthOf(cls))
    /\ InRangeIncl(AddrAdd(args.address, Len(args.data)), WidthOf(cls))

\* C19: split accepts a columns value exactly when 1 <= columns <= 255 for
\* Intel and 1 <= columns <= 128 for Motorola and MOS; any other columns
\* value raises a 'column overflow' error and no record is produced.
C19_ColumnsAccepted ==
    \A cls \in RecordTypes :
        SplitInRange(cls) =>
            IF 1 <= args.columns
               /\ args.columns <= (IF cls = Intel THEN 255 ELSE 128)
            THEN err = ""
            ELSE err = "column overflow" /\ records = <<>>

\* Intel split with 255 columns raised 'column overflow'.
C19_Witness ==
    /\ SplitInRange(Intel)
    /\ args.columns = 255
    /\ err = "column overflow"
    /\ records = <<>>

\* 2^W for the address width W of the class.
Limit(cls) == IF cls = Mos THEN Addr(1, 0) ELSE Addr(65536, 0)

\* address + len(data) of the split called.
SplitEnd == AddrAdd(args.address, Len(args.data))

\* C20: for every format, split(data, address, ...) raises ValueError and
\* produces no record when address < 0, when address >= 2^W, or when
\* address + len(data) > 2^W (W = 32 for binary, Intel and Motorola, W = 16
\* for MOS); address + len(data) = 2^W is accepted (for a number of columns
\* the format takes).
C20_SplitRange ==
    calls = <<"split">> =>
        /\ (\/ args.address.hi < 0
            \/ ~ AddrLt(args.address, Limit(args.cls))
            \/ AddrLt(Limit(args.cls), SplitEnd))
               => /\ err \in {"address overflow", "size overflow"}
                  /\ records = <<>>
        /\ (/\ args.address.hi >= 0
            /\ AddrLt(args.address, Limit(args.cls))
            /\ SplitEnd = Limit(args.cls))
               => \/ err = ""
                  \/ /\ err = "column overflow"
                     /\ args.columns \notin 1..127

\* Intel split of two bytes at 0xFFFFFFFE, ending at 2^32, returned its
\* records.
C20_Witness ==
    /\ calls = <<"split">>
    /\ args.cls = Intel
    /\ args.address = Addr(65535, 65534)
    /\ Len(args.data) = 2
    /\ args.columns = 1
    /\ err = ""
    /\ Len(records) >= 2

-----------------------------------------------------------------------------
(* check() and the address width *)

\* The address and the end of the record lie within the address width of
\* its format.
FitsWidth(r) ==
    /\ r.address.hi >= 0
    /\ AddrLt(r.address, Limit(r.cls))
    /\ AddrLe(AddrAdd(r.address, Len(r.data)), Limit(r.cls))

\* A constructor or a builder has returned a record.
Made == calls # <<>> /\ calls[1] \in {"construct", "build_data"}
        /\ rec # NoRecord

\* C21: check() raises for any record whose address, or whose address +
\* len(data), does not fit the address width of its format (16 bits for
\* MOS, 32 bits for Intel and Motorola): no such record passes check().
C21_CheckRejectsOverflow ==
    (Made /\ ~ FitsWidth(rec)) => check(rec) # ""

\* A MOS record of two bytes at 0xFFFF, ending at 0x10001, was built and
\* passes check().
C21_Witness ==
    /\ calls = <<"build_data">>
    /\ rec # NoRecord
    /\ rec.cls = Mos
    /\ rec.address = Addr(0, 65535)
    /\ rec.data = <<1, 255>>
    /\ check(rec) = ""

-----------------------------------------------------------------------------
(* Comparing two records: __eq__ and __hash__ *)

\* a ^ b for naturals
RECURSIVE Xor(_, _)
Xor(a, b) ==
    IF a = 0 THEN b
    ELSE IF b = 0 THEN a
    ELSE 2 * Xor(a \div 2, b \div 2) + ((a + b) % 2)

\* Record.__hash__: hash(int) is the integer itself for the values here, so
\* the hash is the xor of address, tag, count and checksum, xored with
\* hash(bytes(data)), which is kept as the data it is the hash of. int(None)
\* raises TypeError.
Record_hash(r) ==
    IF r.tag = None \/ r.checksum = None THEN Raise("TypeError")
    ELSE Ok([ints |-> [hi |-> r.address.hi,
                       lo |-> Xor(Xor(Xor(r.address.lo, r.tag), r.count),
                                  r.checksum)],
             bytes |-> r.data])

CompareAddresses == {Addr(0, 0), Addr(0, 1)}

CompareData == {<<>>, <<65>>}

CompareTags(cls) ==
    IF cls = Intel THEN {DATA, END_OF_FILE}
    ELSE IF cls = Motorola THEN {HEADER, DATA_16}
    ELSE {None}

CompareChecksums == {Ellipsis, None, 0}

\* The records that are compared.
Comparable(cls) ==
    LET made == {Construct(cls, address, tag, data, checksum) :
                     address \in CompareAddresses, tag \in CompareTags(cls),
                     data \in CompareData, checksum \in CompareChecksums}
    IN  {res.val : res \in {m \in made : m.err = ""}}

\* record1 == record2, hash(record1), hash(record2)
CallCompare(cls, record1, record2) ==
    /\ calls = <<>>
    /\ calls' = <<"compare">>
    /\ args' = [NoArgs EXCEPT !.call = "compare", !.cls = cls]
    /\ rec' = record1
    /\ parsed' = record2
    /\ err' = IF Record_hash(record1).err # "" THEN Record_hash(record1).err
              ELSE Record_hash(record2).err
    /\ UNCHANGED <<line, records, seqs, lines, blocks>>

CompareNext ==
    /\ calls = <<>>
    /\ \E cls \in RecordTypes : \E record1, record2 \in Comparable(cls) :
           CallCompare(cls, record1, record2)

SpecCompare == Init /\ [][CompareNext]_vars

\* C22: two records compare equal if and only if their address, tag, data,
\* count and checksum are all equal, and any two records that compare
\* equal have the same hash.
C22_EqualityAndHash ==
    calls = <<"compare">> =>
        /\ RecordEq(rec, parsed)
               <=> /\ rec.address = parsed.address
                   /\ rec.tag = parsed.tag
                   /\ rec.data = parsed.data
                   /\ rec.count = parsed.count
                   /\ rec.checksum = parsed.checksum
        /\ RecordEq(rec, parsed)
               => /\ err = ""
                  /\ Record_hash(rec).val = Record_hash(parsed).val

\* Two records of equal address, tag and data, one with the computed
\* checksum and one with checksum 0, compare equal and hash differently.
C22_Witness ==
    /\ calls = <<"compare">>
    /\ err = ""
    /\ RecordEq(rec, parsed)
    /\ rec.checksum # parsed.checksum
    /\ parsed.checksum = 0
    /\ Record_hash(rec).val # Record_hash(parsed).val

-----------------------------------------------------------------------------
(* find_corrupted_records() *)

\* The sizes in bits of the native unsigned long of struct.pack('BL', ...):
\* 4 bytes or 8 bytes, as the platform has it.
NativeLongBits == {32, 64}

\* The kind of exception record.check() raises, "" when it returns.
\* Record.check reaches compute_checksum() when address, tag, count and
\* checksum are in range and the checksum is not None; the struct.pack of
\* motorola compute_checksum then raises struct.error for an address that
\* does not fit the native unsigned long.
check_raises(r, long_bits) ==
    IF /\ r.cls = Motorola
       /\ r.checksum # None
       /\ 0 <= r.address.hi
       /\ 0 <= r.tag /\ r.tag <= 255
       /\ 0 <= r.count /\ r.count <= 255
       /\ 0 <= r.checksum /\ r.checksum <= 255
       /\ long_bits = 32
       /\ r.address.hi >= 65536
    THEN "struct.error"
    ELSE IF check(r) # "" THEN "ValueError"
    ELSE ""

\* The loop of find_corrupted_records from position i on: only ValueError
\* is caught.
RECURSIVE find_corrupted_records_loop(_, _, _)
find_corrupted_records_loop(rs, i, long_bits) ==
    IF i > Len(rs) THEN Ok(<<>>)
    ELSE
        LET raised == check_raises(rs[i], long_bits)
            rest == find_corrupted_records_loop(rs, i + 1, long_bits)
        IN  IF raised \notin {"", "ValueError"} THEN Raise(raised)
            ELSE IF rest.err # "" THEN rest
            ELSE IF raised = "ValueError" THEN Ok(<<i - 1>> \o rest.val)
            ELSE rest

\* find_corrupted_records(records)
find_corrupted_records(rs, long_bits) ==
    find_corrupted_records_loop(rs, 1, long_bits)

\* Records to scan: a good data record, one with a wrong checksum, one
\* beyond the address width with the checksum given, and one with the
\* checksum left out.
CorruptPool(cls) ==
    LET tag == IF cls = Intel THEN DATA
               ELSE IF cls = Motorola THEN DATA_16 ELSE None
        top == IF cls = Mos THEN Addr(1, 0) ELSE Addr(65536, 0)
        made == {Construct(cls, ToAddr(0), tag, Span(1), Ellipsis),
                 Construct(cls, ToAddr(0), tag, Span(1), 0),
                 Construct(cls, top, tag, <<>>, 0),
                 Construct(cls, ToAddr(1), tag, Span(1), None)}
    IN  {res.val : res \in {m \in made : m.err = ""}}

\* corrupted = find_corrupted_records(records); seqs keeps the list as it
\* was handed over and the list returned, args.columns the size of the
\* native unsigned long.
CallFindCorruptedRecords(cls, rs, long_bits) ==
    LET res == find_corrupted_records(rs, long_bits)
    IN  /\ calls = <<>>
        /\ calls' = <<"find_corrupted_records">>
        /\ args' = [NoArgs EXCEPT !.call = "find_corrupted_records",
                                  !.cls = cls, !.columns = long_bits]
        /\ records' = rs
        /\ seqs' = <<rs, IF res.err = "" THEN res.val ELSE <<>>>>
        /\ err' = res.err
        /\ UNCHANGED <<rec, line, parsed, lines, blocks>>

CorruptedNext ==
    /\ calls = <<>>
    /\ \E cls \in RecordTypes, long_bits \in NativeLongBits :
           \E rs \in {<<>>} \cup UNION {[1..n -> CorruptPool(cls)] :
                                           n \in 1..(MaxRecords + 1)} :
               CallFindCorruptedRecords(cls, rs, long_bits)

SpecCorrupted == Init /\ [][CorruptedNext]_vars

\* The indices, from 0, of the records of rs that fail check().
FailingIndices(rs) == {i - 1 : i \in {j \in 1..Len(rs) : check(rs[j]) # ""}}

\* C23: find_corrupted_records(records) does not raise because of invalid
\* records and returns, in ascending order, exactly the indices i for which
\* records[i].check() fails; it changes no field of any record.
C23_FindCorrupted ==
    calls = <<"find_corrupted_records">> =>
        /\ err = ""
        /\ {seqs[2][k] : k \in 1..Len(seqs[2])} = FailingIndices(seqs[1])
        /\ \A k \in 1..(Len(seqs[2]) - 1) : seqs[2][k] < seqs[2][k + 1]
        /\ records = seqs[1]

\* The scan of a good record followed by a Motorola record at 0x100000000
\* with the checksum given ended in struct.error.
C23_Witness ==
    /\ calls = <<"find_corrupted_records">>
    /\ args.cls = Motorola
    /\ Len(seqs[1]) = 2
    /\ check(seqs[1][1]) = ""
    /\ seqs[1][2].address = Addr(65536, 0)
    /\ err = "struct.error"

-----------------------------------------------------------------------------
(* Motorola fix_tags(): in place *)

\* max(record.address + len(record.data) for record in records)
RECURSIVE MaxEndex(_)
MaxEndex(rs) ==
    LET endex == AddrAdd(rs[1].address, Len(rs[1].data))
    IN  IF Len(rs) = 1 THEN endex
        ELSE LET m == MaxEndex(Tail(rs))
             IN  IF AddrLt(m, endex) THEN endex ELSE m

\* The first loop of fix_tags on one record: a COUNT_16 record holding
\* 2^16 or more becomes a COUNT_24 record with its count and checksum
\* updated; a data record gets the tag and its checksum updated; every
\* other record is left as it is.
fix_tags_record(record, tag) ==
    IF record.tag = COUNT_16
    THEN IF Len(record.data) > 4 THEN Raise("struct.error")
         ELSE IF Len(record.data) <= 2 THEN Ok(record)
         ELSE LET packed == [i \in 1..4 |->
                                IF i <= 4 - Len(record.data) THEN 0
                                ELSE record.data[i - (4 - Len(record.data))]]
                  r1 == [record EXCEPT !.tag = COUNT_24,
                                       !.data = Tail(packed)]
                  r2 == [r1 EXCEPT !.count = compute_count(r1)]
              IN  IF BigEndian(record.data) < 65536 THEN Ok(record)
                  ELSE Ok([r2 EXCEPT !.checksum = compute_checksum(r2)])
    ELSE IF is_data(record)
    THEN LET r1 == [record EXCEPT !.tag = tag]
         IN  Ok([r1 EXCEPT !.checksum = compute_checksum(r1)])
    ELSE Ok(record)

\* motorola.Record.fix_tags(records): the list after the call
Motorola_fix_tags(rs) ==
    LET max_address == IF rs # <<>> THEN MaxEndex(rs) ELSE ToAddr(0)
        fit == Motorola_fit_data_tag(max_address)
        fixed == Collect([i \in 1..Len(rs) |-> fix_tags_record(rs[i], fit.val)])
        data_records == IF get_data_records(fixed.val) = <<>>
                        THEN <<Motorola_build_data(ToAddr(0), <<>>, None).val>>
                        ELSE get_data_records(fixed.val)
        start_tag == MatchingTagIndex(MaxTag(data_records))
    IN  IF fit.err # "" THEN [err |-> fit.err, val |-> rs]
        ELSE IF fixed.err # "" THEN [err |-> fixed.err, val |-> rs]
        ELSE Ok([i \in 1..Len(rs) |->
                    IF fixed.val[i].tag \in {START_16, START_24, START_32}
                    THEN [fixed.val[i] EXCEPT !.tag = start_tag]
                    ELSE fixed.val[i]])

\* The records fix_tags is handed: a header, a data record below 2^16, a
\* data record above 2^16, the count record for two records and the
\* terminator of 16-bit data, each passing check().
FixPool ==
    {Motorola_build_header(<<>>).val,
     Motorola_build_data(ToAddr(0), Span(1), None).val,
     Motorola_build_data(Addr(1, 0), Span(1), None).val,
     Motorola_build_count(2).val,
     Motorola_build_terminator(ToAddr(0), DATA_16).val}

\* cls.fix_tags(records), in place; seqs keeps the list as it was.
CallFixTags(rs) ==
    LET res == Motorola_fix_tags(rs)
    IN  /\ calls = <<>>
        /\ calls' = <<"fix_tags">>
        /\ args' = [NoArgs EXCEPT !.call = "fix_tags", !.cls = Motorola]
        /\ seqs' = <<rs>>
        /\ records' = res.val
        /\ err' = res.err
        /\ UNCHANGED <<rec, line, parsed, lines, blocks>>

FixTagsNext ==
    /\ calls = <<>>
    /\ \E rs \in {<<>>} \cup UNION {[1..n -> FixPool] : n \in 1..MaxSequence} :
           CallFixTags(rs)

SpecFixTags == Init /\ [][FixTagsNext]_vars

\* C24: after Motorola fix_tags(records) all data records carry the same
\* data tag, every start record carries the start tag matching it, and
\* every data, count and start record has count = compute_count() and
\* checksum = compute_checksum(), so each record that passed check() before
\* still passes check(), also when fix_tags changes the width of a tag.
C24_FixTagsKeepsValid ==
    (calls = <<"fix_tags">> /\ err = "") =>
        /\ \A i, j \in DataAt(records) : records[i].tag = records[j].tag
        /\ \A i \in Tagged(records, {START_16, START_24, START_32}) :
               \A j \in DataAt(records) :
                   MATCHING_TAG[records[i].tag + 1] = records[j].tag
        /\ \A i \in 1..Len(records) :
               records[i].tag # HEADER
                   => /\ records[i].count = compute_count(records[i])
                      /\ records[i].checksum = compute_checksum(records[i])
        /\ \A i \in 1..Len(records) :
               check(seqs[1][i]) = "" => check(records[i]) = ""

\* fix_tags widened the tag of a data record below 2^16 to DATA_24 and
\* the record fails check().
C24_Witness ==
    /\ calls = <<"fix_tags">>
    /\ err = ""
    /\ \E i \in 1..Len(records) :
           /\ seqs[1][i].tag = DATA_16
           /\ records[i].tag = DATA_24
           /\ check(seqs[1][i]) = ""
           /\ check(records[i]) = "count error"

-----------------------------------------------------------------------------
(* parse_record() on lines that were tampered with *)

\* The lines of records built at three addresses over four payloads.
GoodLines(cls) ==
    {marshal(build_data(cls, address, data).val).val :
         address \in {Addr(0, 0), Addr(0, 4660), Addr(0, 65534)},
         data \in {<<>>, <<65>>, <<1, 255>>, Hello}}

\* The position of the first character of the count field in a line.
CountAt(cls) == IF cls = Motorola THEN 3 ELSE 2

\* A line and what becomes of it: the count field overwritten with 00 or
\* with FF, a byte 00 put in front of the checksum, the last character
\* lost, the first character replaced, blanks around it.
Tampered(cls, l) ==
    LET tail == IF cls = Mos THEN 4 ELSE 2
    IN  {l,
         [l EXCEPT ![CountAt(cls)] = "0", ![CountAt(cls) + 1] = "0"],
         [l EXCEPT ![CountAt(cls)] = "F", ![CountAt(cls) + 1] = "F"],
         SubSeq(l, 1, Len(l) - tail) \o <<"0", "0">>
             \o SubSeq(l, Len(l) - tail + 1, Len(l)),
         SubSeq(l, 1, Len(l) - 1),
         [l EXCEPT ![1] = "X"],
         <<" ">> \o l \o <<" ">>}

\* parsed = cls.parse_record(line)
CallParseLine(cls, text) ==
    LET res == parse_record(cls, text)
    IN  /\ calls = <<>>
        /\ calls' = <<"parse_record">>
        /\ args' = [NoArgs EXCEPT !.call = "parse_record", !.cls = cls]
        /\ line' = text
        /\ parsed' = IF res.err = "" THEN res.val ELSE NoRecord
        /\ err' = res.err
        /\ UNCHANGED <<rec, records, seqs, lines, blocks>>

ParseNext ==
    /\ calls = <<>>
    /\ \E cls \in RecordTypes : \E l \in GoodLines(cls) :
           \E text \in Tampered(cls, l) : CallParseLine(cls, text)

SpecParse == Init /\ [][ParseNext]_vars

\* The line matches the grammar of the format.
MatchesGrammar(cls, l) ==
    IF cls = Intel THEN Intel_REGEX(l)
    ELSE IF cls = Motorola THEN Motorola_REGEX(l)
    ELSE Mos_REGEX(l)

\* The count field of a line that matches the grammar.
DeclaredCount(cls, l) == int16(SubSeq(l, CountAt(cls), CountAt(cls) + 1))

\* The number of bytes the count field of a line stands for: the data
\* bytes (Intel, MOS), the bytes after the count field (Motorola).
ActualCount(cls, l) ==
    IF cls = Motorola THEN (Len(l) - 4) \div 2 ELSE (Len(l) - 11) \div 2

\* C25: for Intel, Motorola and MOS, parse_record fails with the format's
\* parse error (a ValueError, as for a grammar mismatch) and returns no
\* record when the line does not match the format's grammar or when its
\* count field disagrees with the number of bytes in the line.
C25_ParseErrors ==
    calls = <<"parse_record">> =>
        LET l == strip(line)
        IN  (\/ ~ MatchesGrammar(args.cls, l)
             \/ DeclaredCount(args.cls, l) # ActualCount(args.cls, l))
                => /\ err \in {"regex error", "count error"}
                   /\ parsed = NoRecord

\* A Motorola line whose count field was overwritten with FF ended in an
\* AssertionError.
C25_Witness ==
    /\ calls = <<"parse_record">>
    /\ args.cls = Motorola
    /\ Motorola_REGEX(line)
    /\ DeclaredCount(Motorola, line) = 255
    /\ ActualCount(Motorola, line) # 255
    /\ err = "AssertionError"

-----------------------------------------------------------------------------
(* Standalone sequences made by split(), checked *)

\* C26: for every format and any data (empty data too), address and
\* columns that split accepts, the sequence of split(..., standalone=True)
\* passes the check_sequence of the format.
C26_StandaloneSplitChecks ==
    (calls = <<"split", "check_sequence">> /\ args.standalone) => err = ""

\* The standalone Motorola split of no data was rejected by check_sequence.
C26_Witness ==
    /\ calls = <<"split", "check_sequence">>
    /\ args.standalone
    /\ args.cls = Motorola
    /\ args.data = <<>>
    /\ Len(records) = 3
    /\ err = "matching tag error"

-----------------------------------------------------------------------------
(* The chunks of split() *)

\* The payloads of the records, one after the other.
RECURSIVE Joined(_)
Joined(rs) == IF rs = <<>> THEN <<>> ELSE Head(rs).data \o Joined(Tail(rs))

\* The data records run from `address` without a gap, hold `data` between
\* them, each one 1 to `columns` bytes, and with `align` each one after the
\* first starts on a multiple of `columns` or, for Intel, of 64 KiB.
Chunked(ds, cls, data, address, columns, align) ==
    /\ \A i \in 1..Len(ds) :
           1 <= Len(ds[i].data) /\ Len(ds[i].data) <= columns
    /\ ds # <<>> => ds[1].address = address
    /\ \A i \in 1..(Len(ds) - 1) :
           ds[i + 1].address = AddrAdd(ds[i].address, Len(ds[i].data))
    /\ Joined(ds) = data
    /\ align => \A i \in 2..Len(ds) :
                    \/ AddrMod(ds[i].address, columns) = 0
                    \/ cls = Intel /\ ds[i].address.lo = 0

\* split() returned its records
SplitReturned == calls = <<"split">> /\ err = ""

\* The records split() made with build_data: told by their tag, and for MOS,
\* whose records have no tag, all but the terminator that ends a standalone
\* sequence.
SplitDataRecords ==
    IF args.cls = Intel THEN SelectSeq(records, LAMBDA r : r.tag = DATA)
    ELSE IF args.cls = Motorola
    THEN SelectSeq(records,
                   LAMBDA r : r.tag \in {DATA_16, DATA_24, DATA_32})
    ELSE IF args.standalone THEN SubSeq(records, 1, Len(records) - 1)
    ELSE records

\* C28: for every format, the data records yielded by split(d, a, columns,
\* align) each carry between 1 and columns bytes, the first one starts at a,
\* each following one starts where the previous one ends, their payloads
\* concatenated equal d, and with align=True every data record but the first
\* starts at a multiple of columns or, for Intel, at a 64 KiB boundary.
C28_SplitChunks ==
    SplitReturned =>
        Chunked(SplitDataRecords, args.cls, args.data, args.address,
                args.columns, args.align)

\* The Intel split of no data at address 5, aligned to 3 columns, yielded
\* one data record, which holds no byte.
C28_Witness ==
    /\ SplitReturned
    /\ args.cls = Intel
    /\ args.data = <<>>
    /\ args.address = Addr(0, 5)
    /\ args.columns = 3
    /\ args.align
    /\ ~ args.standalone
    /\ Len(records) = 1
    /\ IsDataAt(records[1], Addr(0, 5), <<>>)

-----------------------------------------------------------------------------
(* Intel readdress() and the stored checksums *)

\* Intel readdress() returned, for records that all passed check()
ReaddressedValid ==
    /\ calls = <<"readdress">>
    /\ args.cls = Intel
    /\ err = ""
    /\ \A i \in 1..Len(seqs[1]) : check(seqs[1][i]) = ""

\* C29: Intel readdress preserves record validity: for Intel records that
\* each pass check(), extended segment and extended linear address records
\* among them, every record still passes check() after readdress, its
\* stored checksum equal to compute_checksum() for the new address.
C29_ReaddressKeepsValid ==
    ReaddressedValid =>
        \A i \in 1..Len(records) :
            /\ check(records[i]) = ""
            /\ records[i].checksum = compute_checksum(records[i])

\* An extended segment address record of payload 0x1234 and the data record
\* after it were readdressed to 0x12340 and neither passes check() any more.
C29_Witness ==
    /\ ReaddressedValid
    /\ Len(records) = 2
    /\ records[1].tag = EXTENDED_SEGMENT_ADDRESS
    /\ records[1].address = Addr(1, 9024)
    /\ records[2].tag = DATA
    /\ records[2].address = Addr(1, 9024)
    /\ check(records[1]) = "checksum error"
    /\ check(records[2]) = "checksum error"

-----------------------------------------------------------------------------
(* Intel readdress() on records that hold flat addresses *)

\* IntelRecord.readdress(records) on the records split() or
\* blocks_to_records() just returned; seqs keeps the list as it was.
CallReaddressFlat ==
    /\ calls # <<>>
    /\ calls[Len(calls)] \in {"split", "blocks_to_records"}
    /\ args.cls = Intel
    /\ err = ""
    /\ LET res == readdress(Intel, records)
       IN  /\ records' = res.val
           /\ err' = res.err
    /\ seqs' = <<records>>
    /\ calls' = Append(calls, "readdress")
    /\ UNCHANGED <<args, rec, line, parsed, lines, blocks>>

FlatNext ==
    \/ /\ calls = <<>>
       /\ \E data \in SplitData, address \in SplitAddresses,
             align \in BOOLEAN, standalone \in BOOLEAN :
             CallSplit(Intel, data, address, 16, align, standalone)
    \/ /\ calls = <<>>
       /\ \E bs \in BlockSeqs, record_type \in {Intel, Motorola} :
              CallBlocksToRecords(bs, record_type)
    \/ CallReaddressFlat
    \/ CallRecordsToBlocks
    \/ CallCheckSequenceAfter

SpecFlat == Init /\ [][FlatNext]_vars

\* readdress() ran on the records of split() or blocks_to_records(), and
\* records_to_blocks() on its result
FlatReaddressed ==
    /\ Len(calls) = 3
    /\ calls[1] \in {"split", "blocks_to_records"}
    /\ calls[2] = "readdress"
    /\ calls[3] = "records_to_blocks"

\* C30: Intel readdress is a no-op on flat data: applied to the output of
\* Intel split or of blocks_to_records for Intel it leaves the address of
\* every data record unchanged, and records_to_blocks returns the same
\* blocks before and after the call.
C30_ReaddressFlatNoOp ==
    FlatReaddressed =>
        /\ \A i \in 1..Len(records) :
               is_data(records[i])
                   => records[i].address = seqs[1][i].address
        /\ blocks = records_to_blocks(seqs[1])

\* One byte split at 0x10000 came out of readdress at 0x20000.
C30_Witness ==
    /\ FlatReaddressed
    /\ calls[1] = "split"
    /\ args.address = Addr(1, 0)
    /\ args.data = <<1>>
    /\ records_to_blocks(seqs[1]) = <<<<Addr(1, 0), <<1>>>>>>
    /\ blocks = <<<<Addr(2, 0), <<1>>>>>>

-----------------------------------------------------------------------------
(* blocks_to_records() for Motorola and check_sequence() *)

\* blocks_to_records(blocks, MotorolaRecord) returned and was checked
BlocksChecked ==
    /\ calls = <<"blocks_to_records", "check_sequence">>
    /\ args.output_type = Motorola

\* C27: the sequence blocks_to_records(blocks, MotorolaRecord) returns for
\* sorted blocks that do not overlap passes Motorola check_sequence, all
\* its data records carrying one data tag, whatever ranges the blocks lie in.
C27_MotorolaBlocksCheck ==
    BlocksChecked =>
        /\ err = ""
        /\ \A i, j \in 1..Len(records) :
               (is_data(records[i]) /\ is_data(records[j]))
                   => records[i].tag = records[j].tag

\* A block ending at 2^16 and one above 2^24 gave records of two data tags,
\* which check_sequence rejected.
C27_Witness ==
    /\ BlocksChecked
    /\ blocks = <<<<Addr(0, 65535), Span(1)>>, <<Addr(256, 0), Span(1)>>>>
    /\ records[2].tag = DATA_16
    /\ records[3].tag = DATA_32
    /\ err = "tag error"

=============================================================================
